---- MODULE Spec2Model ----
(***************************************************************************)
(* Model of rlm_redis_ippool_tool.c: the address iterator (ipaddr_next),   *)
(* the fixed-width integer helpers, the release/remove Lua scripts and the *)
(* pipelined, redirect-aware batch executor (driver_do_lease) with its     *)
(* four enqueue/process callback pairs.                                    *)
(*                                                                         *)
(* Integers of the program are wider than the integers of the model        *)
(* checker, so every C unsigned integer is held as a little-endian         *)
(* sequence of 16-bit limbs: uint32_t is 2 limbs, uint64_t is 4 limbs, a   *)
(* native uint128_t is 8 limbs, and the struct uint128_t of the            *)
(* !HAVE_128BIT_INTEGERS build is a record [h, l] of two uint64_t.  All    *)
(* arithmetic is done limb by limb and keeps the exact width of the C      *)
(* type.  Addresses at rest (fr_ipaddr_t) are byte sequences in network    *)
(* byte order, as in struct in_addr / struct in6_addr.                     *)
(***************************************************************************)
EXTENDS Integers, Sequences, FiniteSets, TLC

(***************************************************************************)
(* Limb arithmetic                                                         *)
(***************************************************************************)
LimbBits == 16
LimbBase == 65536

\* The sequence f as an explicit tuple (the same value, evaluated once).
AsSeq(f) == <<>> \o f

RECURSIVE Pow2(_)
Pow2(n) == IF n = 0 THEN 1 ELSE 2 * Pow2(n - 1)

\* The word of n limbs holding the small non-negative value v (v < 2^31).
WordOf(v, n) == AsSeq([i \in 1..n |-> IF i = 1 THEN v % LimbBase
                                      ELSE IF i = 2 THEN v \div LimbBase ELSE 0])

Limb(a, j) == IF j >= 1 /\ j <= Len(a) THEN a[j] ELSE 0

RECURSIVE CarryIn(_, _, _)
CarryIn(a, b, i) == IF i = 1 THEN 0
                    ELSE (a[i-1] + b[i-1] + CarryIn(a, b, i-1)) \div LimbBase

\* a + b in the width of a (unsigned wrap-around).
WAdd(a, b) == AsSeq([i \in 1..Len(a) |-> (a[i] + b[i] + CarryIn(a, b, i)) % LimbBase])

RECURSIVE BorrowIn(_, _, _)
BorrowIn(a, b, i) == IF i = 1 THEN 0
                     ELSE IF a[i-1] - b[i-1] - BorrowIn(a, b, i-1) < 0 THEN 1 ELSE 0

\* a - b in the width of a (unsigned wrap-around).
WSub(a, b) == AsSeq([i \in 1..Len(a) |->
                 (a[i] - b[i] - BorrowIn(a, b, i) + LimbBase) % LimbBase])

\* a << k for 0 <= k < width of a.
WShl(a, k) == LET q == k \div LimbBits
                  r == k % LimbBits
              IN AsSeq([i \in 1..Len(a) |->
                    ((Limb(a, i - q) % Pow2(LimbBits - r)) * Pow2(r))
                    + (Limb(a, i - q - 1) \div Pow2(LimbBits - r))])

\* a >> k for 0 <= k < width of a.
WShr(a, k) == LET q == k \div LimbBits
                  r == k % LimbBits
              IN AsSeq([i \in 1..Len(a) |->
                    (Limb(a, i + q) \div Pow2(r))
                    + ((Limb(a, i + q + 1) % Pow2(r)) * Pow2(LimbBits - r))])

RECURSIVE BitOr(_, _)
BitOr(x, y) == IF x = 0 THEN y ELSE IF y = 0 THEN x
               ELSE (IF x % 2 = 1 \/ y % 2 = 1 THEN 1 ELSE 0)
                    + 2 * BitOr(x \div 2, y \div 2)

WOr(a, b) == AsSeq([i \in 1..Len(a) |-> BitOr(a[i], b[i])])

RECURSIVE BitXor(_, _)
BitXor(x, y) == IF x = 0 THEN y ELSE IF y = 0 THEN x
                ELSE (IF (x % 2) # (y % 2) THEN 1 ELSE 0)
                     + 2 * BitXor(x \div 2, y \div 2)

WXor(a, b) == AsSeq([i \in 1..Len(a) |-> BitXor(a[i], b[i])])

\* Unsigned a > b.
WGt(a, b) == \E i \in 1..Len(a) :
                /\ a[i] > b[i]
                /\ \A j \in (i+1)..Len(a) : a[j] = b[j]

WZero(n) == AsSeq([i \in 1..n |-> 0])
WOnes(n) == AsSeq([i \in 1..n |-> LimbBase - 1])

(***************************************************************************)
(* Byte order.  s_addr and s6_addr hold the address in network byte order  *)
(* (most significant byte first); ntohl and ntohlll give the host integer. *)
(***************************************************************************)
ntohl(s_addr) == <<s_addr[3] * 256 + s_addr[4], s_addr[1] * 256 + s_addr[2]>>

htonl(ip) == <<ip[2] \div 256, ip[2] % 256, ip[1] \div 256, ip[1] % 256>>

\* The 64-bit integer held most significant byte first in b[from..from+7].
BytesTo64(b, from) == AsSeq([i \in 1..4 |->
                         b[from + 8 - 2*i] * 256 + b[from + 9 - 2*i]])

Bytes64(w) == AsSeq([k \in 1..8 |-> IF k % 2 = 1 THEN w[(10 - k) \div 2] \div 256
                                                 ELSE w[(10 - k) \div 2] % 256])

\* struct uint128_t { h, l } build
ntohlll(s6_addr) == [h |-> BytesTo64(s6_addr, 1), l |-> BytesTo64(s6_addr, 9)]

htonlll(num) == Bytes64(num.h) \o Bytes64(num.l)

\* native uint128_t build
ntohlll_native(s6_addr) == BytesTo64(s6_addr, 9) \o BytesTo64(s6_addr, 1)

htonlll_native(num) == Bytes64(SubSeq(num, 5, 8)) \o Bytes64(SubSeq(num, 1, 4))

(***************************************************************************)
(* 128-bit integers, !HAVE_128BIT_INTEGERS build (two uint64_t halves)     *)
(***************************************************************************)
\* A shift of a uint64_t by 64 bits is undefined in C: the machine either
\* uses the count modulo 64 ("wrap") or shifts every bit out ("zero").
ShiftOutcomes == {"wrap", "zero"}

Shr64(x, k, ub) == IF k < 64 THEN WShr(x, k)
                   ELSE IF ub = "wrap" THEN WShr(x, k % 64) ELSE WZero(4)

uint128_lshift(num, bits, ub) ==
    IF bits >= 64
    THEN LET l == WZero(4)                       \* num.l = 0;
         IN [l |-> l, h |-> WShl(l, bits - 64)]  \* num.h = num.l << (bits - 64);
    ELSE [h |-> WOr(WShl(num.h, bits), Shr64(num.l, 64 - bits, ub)),
          l |-> WShl(num.l, bits)]

\* uint128_add without the carry out of the low half.
uint128_add_nocarry(a, b) == [l |-> WAdd(a.l, b.l), h |-> WAdd(a.h, b.h)]

uint128_add(a, b) ==
    LET tmp == WShr(WAdd(WAdd(WordOf((a.l[1] % 2) * (b.l[1] % 2), 4), WShr(a.l, 1)),
                         WShr(b.l, 1)), 63)
    IN [l |-> WAdd(a.l, b.l), h |-> WAdd(WAdd(a.h, b.h), tmp)]

uint128_eq(a, b) == (a.h = b.h) /\ (a.l = b.l)

uint128_new(h, l) == [l |-> l, h |-> h]

Shl64(x, k, ub) == IF k < 64 THEN WShl(x, k)
                   ELSE IF ub = "wrap" THEN WShl(x, k % 64) ELSE WZero(4)

\* bits < 128 is asserted by the code.
uint128_gen_mask(bits, ub) ==
    IF bits > 64
    THEN LET h1 == Shl64(WordOf(1, 4), bits - 64, ub)     \* (uint64_t)1 << (bits - 64)
         IN [l |-> WOnes(4), h |-> WXor(h1, WSub(h1, WordOf(1, 4)))]
    ELSE LET l1 == Shl64(WordOf(1, 4), bits, ub)          \* (uint64_t)1 << bits
         IN [h |-> WZero(4), l |-> WXor(l1, WSub(l1, WordOf(1, 4)))]

uint128_sub(a, b) ==
    LET retl == WSub(a.l, b.l)
        c == WShr(WAdd(WAdd(WordOf((retl[1] % 2) * (b.l[1] % 2), 4), WShr(b.l, 1)),
                       WShr(retl, 1)), 63)
    IN [l |-> retl, h |-> WSub(a.h, WAdd(b.h, c))]

uint128_bor(a, b) == [l |-> WOr(a.l, b.l), h |-> WAdd(a.h, b.h)]

uint128_gt(a, b) ==
    IF WGt(b.h, a.h) THEN FALSE
    ELSE IF WGt(a.h, b.h) THEN TRUE
    ELSE WGt(a.l, b.l)

(***************************************************************************)
(* 128-bit integers, HAVE_128BIT_INTEGERS build (compiler's own type)      *)
(***************************************************************************)
uint128_lshift_native(num, bits) == WShl(num, bits)

uint128_add_native(a, b) == WAdd(a, b)

uint128_eq_native(a, b) == a = b

uint128_new_native(a, b) == WOr(b \o WZero(4), WShl(a \o WZero(4), 64))

uint128_gen_mask_native(bits) ==
    IF bits >= 128 THEN WOnes(8)
    ELSE WSub(WShl(WordOf(1, 8), bits), WordOf(1, 8))

uint128_bor_native(a, b) == WOr(a, b)

uint128_gt_native(a, b) == WGt(a, b)

uint128_sub_native(a, b) == WSub(a, b)

(***************************************************************************)
(* ipaddr_next: step an address by one prefix, stopping at end.            *)
(* build = [have128 : HAVE_128BIT_INTEGERS, shift : outcome of the         *)
(* out-of-range shift, endian : byte order of the machine].  The result   *)
(* is the new *ipaddr and the value returned.                              *)
(***************************************************************************)
\* 1 << n in int, converted to uint32_t by the += (0 <= n <= 31).
IntShl1(n) == WShl(WordOf(1, 2), n)

\* ipaddr_next with "ip_curr++" in place of the prefix-sized step.
ipaddr_next_inet_unit(ipaddr, end, prefix) ==
    LET ip_curr == ntohl(ipaddr.addr)
        ip_end  == ntohl(end.addr)
    IN IF ip_curr = ip_end
       THEN [ipaddr |-> ipaddr, ret |-> FALSE]
       ELSE [ipaddr |-> [ipaddr EXCEPT !.addr = htonl(WAdd(ip_curr, WordOf(1, 2)))],
             ret |-> TRUE]

ipaddr_next_inet(ipaddr, end, prefix) ==
    LET ip_curr == ntohl(ipaddr.addr)
        ip_end  == ntohl(end.addr)
    IN IF ip_curr = ip_end
       THEN [ipaddr |-> ipaddr, ret |-> FALSE]
       ELSE [ipaddr |-> [ipaddr EXCEPT !.addr = htonl(WAdd(ip_curr, IntShl1(32 - prefix)))],
             ret |-> TRUE]

ipaddr_next_inet6(ipaddr, end, prefix, build) ==
    IF build.have128
    THEN LET ip_curr == ntohlll_native(ipaddr.addr)
             ip_end  == ntohlll_native(end.addr)
         IN IF uint128_eq_native(ip_curr, ip_end)
            THEN [ipaddr |-> ipaddr, ret |-> FALSE]
            ELSE [ipaddr |-> [ipaddr EXCEPT !.addr =
                     htonlll_native(uint128_add_native(ip_curr,
                        uint128_lshift_native(uint128_new_native(WZero(4), WordOf(1, 4)),
                                              128 - prefix)))],
                  ret |-> TRUE]
    ELSE LET ip_curr == ntohlll(ipaddr.addr)
             ip_end  == ntohlll(end.addr)
         IN IF uint128_eq(ip_curr, ip_end)
            THEN [ipaddr |-> ipaddr, ret |-> FALSE]
            ELSE [ipaddr |-> [ipaddr EXCEPT !.addr =
                     htonlll(uint128_add(ip_curr,
                        uint128_lshift(uint128_new(WZero(4), WordOf(1, 4)),
                                       128 - prefix, build.shift)))],
                  ret |-> TRUE]

ipaddr_next(ipaddr, end, prefix, build) ==
    IF ipaddr.af = "AF_INET6" THEN ipaddr_next_inet6(ipaddr, end, prefix, build)
    ELSE IF ipaddr.af = "AF_INET" THEN ipaddr_next_inet(ipaddr, end, prefix)
    ELSE [ipaddr |-> ipaddr, ret |-> FALSE]

(***************************************************************************)
(* parse_ip_range.  The text of a range is held parsed into its parts:     *)
(*   [form |-> "range", a, b]   "A-B"                                      *)
(*   [form |-> "cidr", a, n]    "A/N"                                      *)
(*   [form |-> "host", a]       "A"                                        *)
(*   [form |-> "bad"]           anything fr_inet_pton rejects              *)
(* with a and b addresses [af, addr].  An fr_ipaddr_t with its prefix      *)
(* field is [af, addr, prefix].  The result is [ret, start, end].          *)
(***************************************************************************)
\* IPADDR_LEN
IPADDR_LEN(af) == IF af = "AF_INET6" THEN 128 ELSE 32

\* The uint64_t stored least significant byte first in b[from..from+7].
LE64(b, from) == AsSeq([i \in 1..4 |-> b[from + 2*i - 2] + 256 * b[from + 2*i - 1]])

BytesLE64(w) == AsSeq([k \in 1..8 |-> IF k % 2 = 1 THEN w[(k + 1) \div 2] % 256
                                                   ELSE w[k \div 2] \div 256])

\* memcpy(&ip, s6_addr, 16): the uint128_t whose storage holds the 16 bytes.
MemToU128(bytes, bld) ==
    IF bld.have128
    THEN IF bld.endian = "little" THEN LE64(bytes, 1) \o LE64(bytes, 9)
         ELSE ntohlll_native(bytes)
    ELSE IF bld.endian = "little" THEN [l |-> LE64(bytes, 1), h |-> LE64(bytes, 9)]
         ELSE ntohlll(bytes)

\* memcpy(s6_addr, &ip, 16): the 16 bytes of storage of a uint128_t.
U128ToMem(x, bld) ==
    IF bld.have128
    THEN IF bld.endian = "little"
         THEN BytesLE64(SubSeq(x, 1, 4)) \o BytesLE64(SubSeq(x, 5, 8))
         ELSE htonlll_native(x)
    ELSE IF bld.endian = "little" THEN BytesLE64(x.l) \o BytesLE64(x.h)
         ELSE htonlll(x)

\* fr_inet_pton of an address with an optional /mask: the address, with its
\* host bits kept, and the mask length (the full width when none is given).
fr_inet_pton(a, n) == [af |-> a.af, addr |-> a.addr, prefix |-> n]

\* fr_ipaddr_mask: keep the first prefix bits of the address.
fr_ipaddr_mask(addr, prefix) ==
    LET w == IPADDR_LEN(addr.af)
        x == IF addr.af = "AF_INET6" THEN ntohlll_native(addr.addr) ELSE ntohl(addr.addr)
        m == IF prefix >= w THEN x
             ELSE IF prefix = 0 THEN WZero(w \div LimbBits)
             ELSE WShl(WShr(x, w - prefix), w - prefix)
    IN [af |-> addr.af,
        addr |-> IF addr.af = "AF_INET6" THEN htonlll_native(m) ELSE htonl(m),
        prefix |-> prefix]

\* uint32_gen_mask without the "- 1".
uint32_gen_mask_pow(bits) ==
    IF bits >= 32 THEN WOnes(2)
    ELSE WShl(WordOf(1, 2), bits)

\* (1 << bits) - 1 is computed in int and wraps for bits = 31.
uint32_gen_mask(bits) ==
    IF bits >= 32 THEN WOnes(2)
    ELSE WSub(WShl(WordOf(1, 2), bits), WordOf(1, 2))

NoRange == [af |-> "AF_UNSPEC", addr |-> <<>>, prefix |-> 0]

ParseError == [ret |-> -1, start |-> NoRange, end |-> NoRange]

\* The A-B branch with ">=" in place of ">" in the order tests.
parse_ip_range_ab_strict(ip_str, prefix_arg, bld) ==
    LET start == fr_inet_pton(ip_str.a, IPADDR_LEN(ip_str.a.af))
        end   == fr_inet_pton(ip_str.b, IPADDR_LEN(ip_str.b.af))
        prefix == IF prefix_arg = 0 THEN IPADDR_LEN(start.af) ELSE prefix_arg
    IN IF start.af # end.af THEN ParseError
       ELSE IF start.af = "AF_INET6"
               /\ (IF bld.have128
                   THEN ~uint128_gt_native(ntohlll_native(end.addr), ntohlll_native(start.addr))
                   ELSE ~uint128_gt(ntohlll(end.addr), ntohlll(start.addr)))
       THEN ParseError
       ELSE IF start.af # "AF_INET6" /\ ~WGt(ntohl(end.addr), ntohl(start.addr))
       THEN ParseError
       ELSE [ret |-> 0,
             start |-> fr_ipaddr_mask(start, prefix),
             end   |-> fr_ipaddr_mask(end, prefix)]

\* The A-B branch (lines 795-869).
parse_ip_range_ab(ip_str, prefix_arg, bld) ==
    LET start == fr_inet_pton(ip_str.a, IPADDR_LEN(ip_str.a.af))
        end   == fr_inet_pton(ip_str.b, IPADDR_LEN(ip_str.b.af))
        prefix == IF prefix_arg = 0 THEN IPADDR_LEN(start.af) ELSE prefix_arg
    IN IF start.af # end.af THEN ParseError
       ELSE IF start.af = "AF_INET6"
               /\ (IF bld.have128
                   THEN uint128_gt_native(ntohlll_native(start.addr), ntohlll_native(end.addr))
                   ELSE uint128_gt(ntohlll(start.addr), ntohlll(end.addr)))
       THEN ParseError
       ELSE IF start.af # "AF_INET6" /\ WGt(ntohl(start.addr), ntohl(end.addr))
       THEN ParseError
       ELSE [ret |-> 0,
             start |-> fr_ipaddr_mask(start, prefix),
             end   |-> fr_ipaddr_mask(end, prefix)]

\* The end address with the IPv4 "ip--" done whether or not ex_broadcast.
parse_ip_range_end_dec(start, prefix, ex_broadcast, bld) ==
    IF start.af = "AF_INET6"
    THEN IF bld.have128
         THEN LET ip     == ntohlll_native(start.addr)
                  p_mask == uint128_lshift_native(
                                uint128_gen_mask_native(prefix - start.prefix), 128 - prefix)
                  net    == MemToU128(htonlll_native(uint128_bor_native(p_mask, ip)), bld)
                  dec    == IF ex_broadcast
                            THEN uint128_sub_native(net,
                                     uint128_new_native(WZero(4), WordOf(1, 4)))
                            ELSE net
              IN [start EXCEPT !.addr = U128ToMem(dec, bld)]
         ELSE LET ip     == ntohlll(start.addr)
                  p_mask == uint128_lshift(uint128_gen_mask(prefix - start.prefix, bld.shift),
                                           128 - prefix, bld.shift)
                  net    == MemToU128(htonlll(uint128_bor(p_mask, ip)), bld)
                  dec    == IF ex_broadcast
                            THEN uint128_sub(net, uint128_new(WZero(4), WordOf(1, 4)))
                            ELSE net
              IN [start EXCEPT !.addr = U128ToMem(dec, bld)]
    ELSE LET ip  == ntohl(start.addr)
             ored == WOr(ip, WShl(uint32_gen_mask(prefix - start.prefix), 32 - prefix))
             dec == WSub(ored, WordOf(1, 2))
         IN [start EXCEPT !.addr = htonl(dec)]

\* The end address of a CIDR (lines 910-941).
parse_ip_range_end(start, prefix, ex_broadcast, bld) ==
    IF start.af = "AF_INET6"
    THEN IF bld.have128
         THEN LET ip     == ntohlll_native(start.addr)
                  p_mask == uint128_lshift_native(
                                uint128_gen_mask_native(prefix - start.prefix), 128 - prefix)
                  net    == MemToU128(htonlll_native(uint128_bor_native(p_mask, ip)), bld)
                  dec    == IF ex_broadcast
                            THEN uint128_sub_native(net,
                                     uint128_new_native(WZero(4), WordOf(1, 4)))
                            ELSE net
              IN [start EXCEPT !.addr = U128ToMem(dec, bld)]
         ELSE LET ip     == ntohlll(start.addr)
                  p_mask == uint128_lshift(uint128_gen_mask(prefix - start.prefix, bld.shift),
                                           128 - prefix, bld.shift)
                  net    == MemToU128(htonlll(uint128_bor(p_mask, ip)), bld)
                  dec    == IF ex_broadcast
                            THEN uint128_sub(net, uint128_new(WZero(4), WordOf(1, 4)))
                            ELSE net
              IN [start EXCEPT !.addr = U128ToMem(dec, bld)]
    ELSE LET ip  == ntohl(start.addr)
             ored == WOr(ip, WShl(uint32_gen_mask(prefix - start.prefix), 32 - prefix))
             dec == IF ex_broadcast THEN WSub(ored, WordOf(1, 2)) ELSE ored
         IN [start EXCEPT !.addr = htonl(dec)]

\* parse_ip_range without the early return of lines 901-905.
parse_ip_range_nopair(ip_str, prefix_arg, bld) ==
    IF ip_str.form = "bad" THEN ParseError
    ELSE IF ip_str.form = "range" THEN parse_ip_range_ab(ip_str, prefix_arg, bld)
    ELSE LET start  == fr_inet_pton(ip_str.a, IF ip_str.form = "cidr" THEN ip_str.n
                                              ELSE IPADDR_LEN(ip_str.a.af))
             prefix == IF prefix_arg = 0 THEN IPADDR_LEN(start.af) ELSE prefix_arg
             ex_broadcast == IPADDR_LEN(start.af) = prefix
         IN IF prefix < start.prefix THEN ParseError
            ELSE IF prefix > IPADDR_LEN(start.af) THEN ParseError
            ELSE IF (prefix - start.prefix) > 64 THEN ParseError
            ELSE [ret |-> 0, start |-> start,
                  end |-> parse_ip_range_end(start, prefix, ex_broadcast, bld)]

\* parse_ip_range (lines 788-947).
parse_ip_range(ip_str, prefix_arg, bld) ==
    IF ip_str.form = "bad" THEN ParseError
    ELSE IF ip_str.form = "range" THEN parse_ip_range_ab(ip_str, prefix_arg, bld)
    ELSE LET start  == fr_inet_pton(ip_str.a, IF ip_str.form = "cidr" THEN ip_str.n
                                              ELSE IPADDR_LEN(ip_str.a.af))
             prefix == IF prefix_arg = 0 THEN IPADDR_LEN(start.af) ELSE prefix_arg
             ex_broadcast == IPADDR_LEN(start.af) = prefix
         IN IF prefix < start.prefix THEN ParseError
            ELSE IF prefix > IPADDR_LEN(start.af) THEN ParseError
            ELSE IF (prefix - start.prefix) > 64 THEN ParseError
            ELSE IF ex_broadcast /\ (start.prefix >= (IPADDR_LEN(start.af) - 1))
            THEN [ret |-> 0, start |-> start, end |-> start]
            ELSE [ret |-> 0, start |-> start,
                  end |-> parse_ip_range_end(start, prefix, ex_broadcast, bld)]

(***************************************************************************)
(* The store.  One pool (one hash tag) holds three kinds of key:           *)
(*   {pool}:pool          a sorted set, member = address string, score =   *)
(*                        expiry time;                                     *)
(*   {pool}:ip:<addr>     a hash with fields device, gateway, range;       *)
(*   {pool}:device:<id>   a string key.                                    *)
(* A store value is [zset, hash, device]: zset maps every address string   *)
(* to its score or NoScore when it is not a member, hash maps every        *)
(* address string to its three fields (Nil for a missing field; a hash     *)
(* with no field does not exist), device maps every device id to whether   *)
(* its key exists.                                                         *)
(***************************************************************************)
Nil == "nil"
NoScore == -1

Fields == {"device", "gateway", "range"}

NoHash == [f \in Fields |-> Nil]

HashExists(db, ip) == db.hash[ip] # NoHash

\* ZADD key NX score member: add only; replies the number of members added.
ZADD_NX(db, score, member) ==
    IF db.zset[member] = NoScore
    THEN [db |-> [db EXCEPT !.zset[member] = score], reply |-> 1]
    ELSE [db |-> db, reply |-> 0]

\* ZADD key XX CH score member: update only; replies the number of members changed.
ZADD_XX_CH(db, score, member) ==
    IF db.zset[member] = NoScore \/ db.zset[member] = score
    THEN [db |-> db, reply |-> 0]
    ELSE [db |-> [db EXCEPT !.zset[member] = score], reply |-> 1]

\* ZADD key CH score member: add or update.
ZADD_CH(db, score, member) ==
    IF db.zset[member] = score
    THEN [db |-> db, reply |-> 0]
    ELSE [db |-> [db EXCEPT !.zset[member] = score], reply |-> 1]

\* ZREM key member: replies the number of members removed.
ZREM(db, member) ==
    IF db.zset[member] = NoScore
    THEN [db |-> db, reply |-> 0]
    ELSE [db |-> [db EXCEPT !.zset[member] = NoScore], reply |-> 1]

\* ZSCORE key member: the score, or Nil.
ZSCORE(db, member) == db.zset[member]

\* HGET key field: the value, or Nil.
HGET(db, ip, field) == db.hash[ip][field]

\* HSET key field value: replies the number of fields created.
HSET(db, ip, field, value) ==
    [db |-> [db EXCEPT !.hash[ip][field] = value],
     reply |-> IF db.hash[ip][field] = Nil THEN 1 ELSE 0]

\* DEL {pool}:ip:<addr>
DEL_ip(db, ip) == [db EXCEPT !.hash[ip] = NoHash]

\* DEL {pool}:device:<id>
DEL_device(db, dev) == IF dev \in DOMAIN db.device
                       THEN [db EXCEPT !.device[dev] = FALSE] ELSE db

(***************************************************************************)
(* The Lua scripts.  KEYS[1] is the pool (the one pool of the store),      *)
(* ARGV[1] the address string.  The result is the store after the script   *)
(* and the integer it returns.                                             *)
(***************************************************************************)
\* lua_release_cmd with the XX of its ZADD left out.
lua_release_cmd_noxx(db, argv1) ==
    LET z == ZADD_CH(db, 0, argv1)
        ret == z.reply
    IN IF ret = 0 THEN [db |-> z.db, ret |-> 0]
       ELSE LET found == HGET(z.db, argv1, "device")
            IN IF found = Nil THEN [db |-> z.db, ret |-> ret]
               ELSE [db |-> DEL_device(z.db, found), ret |-> 1]

lua_release_cmd(db, argv1) ==
    LET z == ZADD_XX_CH(db, 0, argv1)                          \* 3
        ret == z.reply
    IN IF ret = 0 THEN [db |-> z.db, ret |-> 0]                \* 4-6
       ELSE LET found == HGET(z.db, argv1, "device")           \* 7
            IN IF found = Nil THEN [db |-> z.db, ret |-> ret]  \* 8-10
               ELSE [db |-> DEL_device(z.db, found), ret |-> 1] \* 11-12

\* lua_remove_cmd with the DEL of the address key (line 10) left out.
lua_remove_cmd_keephash(db, argv1) ==
    LET z == ZREM(db, argv1)
        ret == z.reply
        found == HGET(z.db, argv1, "device")
    IN IF found = Nil THEN [db |-> z.db, ret |-> ret]
       ELSE [db |-> DEL_device(z.db, found), ret |-> 1]

lua_remove_cmd(db, argv1) ==
    LET z == ZREM(db, argv1)                                   \* 4
        ret == z.reply
        found == HGET(z.db, argv1, "device")                   \* 6
    IN IF found = Nil THEN [db |-> z.db, ret |-> ret]          \* 7-9
       ELSE [db |-> DEL_device(DEL_ip(z.db, argv1), found),    \* 10-11
             ret |-> 1]                                        \* 12

(***************************************************************************)
(* Commands and replies.  A command is [cmd, ip, field, value]; a reply is *)
(* [type, integer, str, element] as in hiredis' redisReply.                *)
(***************************************************************************)
Cmd(c, ip, field, value) == [cmd |-> c, ip |-> ip, field |-> field, value |-> value]

Reply(t, n, str, el) == [type |-> t, integer |-> n, str |-> str, element |-> el]

StatusReply(str) == Reply("REDIS_REPLY_STATUS", 0, str, <<>>)
IntegerReply(n) == Reply("REDIS_REPLY_INTEGER", n, "", <<>>)
StringReply(str) == Reply("REDIS_REPLY_STRING", 0, str, <<>>)
NilReply == Reply("REDIS_REPLY_NIL", 0, "", <<>>)
ArrayReply(el) == Reply("REDIS_REPLY_ARRAY", 0, "", el)
ErrorReply(str) == Reply("REDIS_REPLY_ERROR", 0, str, <<>>)

\* IPADDR_LEN
AddrWidth(af) == IF af = "AF_INET6" THEN 128 ELSE 32

\* The decimal digits of a score, as the store prints it.
RECURSIVE Digits(_)
Digits(n) == IF n < 10 THEN <<n>> ELSE Append(Digits(n \div 10), n % 10)

\* strtoull(str, NULL, 10) of a digit string.
RECURSIVE strtoull(_)
strtoull(str) == IF Len(str) = 0 THEN 0
                 ELSE 10 * strtoull(SubSeq(str, 1, Len(str) - 1)) + str[Len(str)]

\* The address string of IPPOOL_SPRINT_IP: the address, with a /prefix
\* suffix only when the prefix is not the full width of the address.
SprintIp(ipaddr, prefix) ==
    [addr |-> ipaddr.addr,
     suffix |-> IF prefix = AddrWidth(ipaddr.af) THEN 0 ELSE prefix]

\* One command run by the store outside MULTI, or from the queue of an EXEC.
ExecCmd(db, c) ==
    IF c.cmd = "ZADD_NX"
    THEN LET r == ZADD_NX(db, 0, c.ip) IN [db |-> r.db, reply |-> IntegerReply(r.reply)]
    ELSE IF c.cmd = "HSET"
    THEN LET r == HSET(db, c.ip, c.field, c.value) IN [db |-> r.db, reply |-> IntegerReply(r.reply)]
    ELSE IF c.cmd = "ZSCORE"
    THEN [db |-> db,
          reply |-> IF ZSCORE(db, c.ip) = NoScore THEN NilReply
                    ELSE StringReply(Digits(ZSCORE(db, c.ip)))]
    ELSE IF c.cmd = "HGET"
    THEN [db |-> db,
          reply |-> IF HGET(db, c.ip, c.field) = Nil THEN NilReply
                    ELSE StringReply(HGET(db, c.ip, c.field))]
    ELSE IF c.cmd = "EVAL_release"
    THEN LET r == lua_release_cmd(db, c.ip) IN [db |-> r.db, reply |-> IntegerReply(r.ret)]
    ELSE IF c.cmd = "EVAL_remove"
    THEN LET r == lua_remove_cmd(db, c.ip) IN [db |-> r.db, reply |-> IntegerReply(r.ret)]
    ELSE [db |-> db, reply |-> ErrorReply("ERR unknown command")]

\* EXEC: the queued commands run in order; their replies form the array.
RECURSIVE ExecQueue(_, _, _)
ExecQueue(db, queue, el) ==
    IF queue = <<>> THEN [db |-> db, reply |-> ArrayReply(el)]
    ELSE LET r == ExecCmd(db, Head(queue))
         IN ExecQueue(r.db, Tail(queue), Append(el, r.reply))

\* The store takes one command of a pipeline.  x = [db, replies, multi, queue].
PipelineStep(x, c) ==
    IF c.cmd = "MULTI"
    THEN [x EXCEPT !.multi = TRUE, !.queue = <<>>,
                   !.replies = Append(@, StatusReply("OK"))]
    ELSE IF c.cmd = "EXEC"
    THEN LET r == ExecQueue(x.db, x.queue, <<>>)
         IN [db |-> r.db, replies |-> Append(x.replies, r.reply),
             multi |-> FALSE, queue |-> <<>>]
    ELSE IF x.multi
    THEN [x EXCEPT !.queue = Append(@, c),
                   !.replies = Append(@, StatusReply("QUEUED"))]
    ELSE LET r == ExecCmd(x.db, c)
         IN [x EXCEPT !.db = r.db, !.replies = Append(@, r.reply)]

\* Commands cmds[lo..hi] in order.  The range is halved so that evaluation
\* nests only logarithmically deep; the commands are still taken one by one
\* from first to last.
RECURSIVE PipelineRun(_, _, _, _)
PipelineRun(x, cmds, lo, hi) ==
    IF lo > hi THEN x
    ELSE IF lo = hi THEN PipelineStep(x, cmds[lo])
    ELSE LET mid == (lo + hi) \div 2
             t == PipelineRun(x, cmds, lo, mid)
         IN IF t.multi \in BOOLEAN THEN PipelineRun(t, cmds, mid + 1, hi) ELSE t

\* A pipeline that the shard owning the hash tag executes: one reply per
\* command, in submission order.
ExecPipeline(db, cmds) ==
    PipelineRun([db |-> db, replies |-> <<>>, multi |-> FALSE, queue |-> <<>>],
                cmds, 1, Len(cmds))

(***************************************************************************)
(* The four operations: enqueue and process callbacks.  An enqueue yields  *)
(* the commands it appended and the number it returns; a process yields    *)
(* the updated *out and the value it returns.                              *)
(***************************************************************************)
\* sizeof(ip_key): IPPOOL_MAX_IP_KEY_SIZE, from rlm_redis_ippool.h.
IPPOOL_MAX_IP_KEY_SIZE == 184

is_truncated(r, max) == r >= max

\* IPPOOL_BUILD_IP_KEY_FROM_STR up to its test: '{', the pool name, then
\* strlcpy of "}:ip:" into what is left of the buffer.  TRUE when the macro
\* reports "IP key too long" and makes the enqueue callback return 0.
\* key_len is at most sizeof(ip_key) - 1: a longer pool name is copied
\* past the end of the buffer before anything is tested.
IPPOOL_BUILD_IP_KEY_FROM_STR(key_len) ==
    LET room == IPPOOL_MAX_IP_KEY_SIZE - (1 + key_len)
        slen == 5
    IN is_truncated(slen, room)

_driver_show_lease_enqueue(key_prefix_len, range, ipaddr, prefix) ==
    LET ip_buff == SprintIp(ipaddr, prefix)
    IN IF IPPOOL_BUILD_IP_KEY_FROM_STR(key_prefix_len) THEN [cmds |-> <<>>, ret |-> 0]
       ELSE
       [cmds |-> << Cmd("MULTI", ip_buff, "", ""),
                    Cmd("ZSCORE", ip_buff, "", ""),
                    Cmd("HGET", ip_buff, "device", ""),
                    Cmd("HGET", ip_buff, "gateway", ""),
                    Cmd("HGET", ip_buff, "range", ""),
                    Cmd("EXEC", ip_buff, "", "") >>,
        ret |-> 6]

StrOrNull(reply) == IF reply.type = "REDIS_REPLY_STRING" THEN reply.str ELSE Nil

_driver_show_lease_process(out, ipaddr, reply) ==
    IF reply.type # "REDIS_REPLY_ARRAY" THEN [out |-> out, ret |-> -1]
    ELSE IF Len(reply.element) < 4 THEN [out |-> out, ret |-> -1]
    ELSE IF reply.element[1].type # "REDIS_REPLY_STRING" THEN [out |-> out, ret |-> -1]
    ELSE [out |-> Append(out, [ipaddr     |-> ipaddr,
                               next_event |-> strtoull(reply.element[1].str),
                               device     |-> StrOrNull(reply.element[2]),
                               gateway    |-> StrOrNull(reply.element[3]),
                               range      |-> StrOrNull(reply.element[4])]),
          ret |-> 0]

_driver_release_lease_enqueue(key_prefix_len, range, ipaddr, prefix) ==
    [cmds |-> << Cmd("EVAL_release", SprintIp(ipaddr, prefix), "", "") >>, ret |-> 1]

_driver_release_lease_process(out, ipaddr, reply) ==
    IF reply.type # "REDIS_REPLY_INTEGER" THEN [out |-> out, ret |-> -1]
    ELSE [out |-> out + reply.integer, ret |-> 0]

_driver_remove_lease_enqueue(key_prefix_len, range, ipaddr, prefix) ==
    [cmds |-> << Cmd("EVAL_remove", SprintIp(ipaddr, prefix), "", "") >>, ret |-> 1]

_driver_remove_lease_process(out, ipaddr, reply) ==
    IF reply.type # "REDIS_REPLY_INTEGER" THEN [out |-> out, ret |-> -1]
    ELSE [out |-> out + reply.integer, ret |-> 0]

\* The metadata is written with an empty range whatever the run's range.
_driver_add_lease_enqueue_norange(key_prefix_len, range, ipaddr, prefix) ==
    LET ip_buff == SprintIp(ipaddr, prefix)
    IN IF IPPOOL_BUILD_IP_KEY_FROM_STR(key_prefix_len) THEN [cmds |-> <<>>, ret |-> 0]
       ELSE
       [cmds |-> << Cmd("MULTI", ip_buff, "", ""),
                    Cmd("ZADD_NX", ip_buff, "", ""),
                    Cmd("HSET", ip_buff, "range", ""),
                    Cmd("EXEC", ip_buff, "", "") >>,
        ret |-> 4]

_driver_add_lease_enqueue(key_prefix_len, range, ipaddr, prefix) ==
    LET ip_buff == SprintIp(ipaddr, prefix)
    IN IF IPPOOL_BUILD_IP_KEY_FROM_STR(key_prefix_len) THEN [cmds |-> <<>>, ret |-> 0]
       ELSE
       [cmds |-> << Cmd("MULTI", ip_buff, "", ""),
                    Cmd("ZADD_NX", ip_buff, "", ""),
                    Cmd("HSET", ip_buff, "range", range),
                    Cmd("EXEC", ip_buff, "", "") >>,
        ret |-> 4]

_driver_add_lease_process(out, ipaddr, reply) ==
    IF reply.type # "REDIS_REPLY_ARRAY" THEN [out |-> out, ret |-> -1]
    ELSE IF Len(reply.element) > 0 /\ reply.element[1].type = "REDIS_REPLY_INTEGER"
    THEN [out |-> out + reply.element[1].integer, ret |-> 0]
    ELSE [out |-> out, ret |-> 0]

\* The callback pair driver_add_lease etc. hand to driver_do_lease.
enqueue(action, key_prefix_len, range, ipaddr, prefix) ==
    IF action = "IPPOOL_TOOL_ADD"
    THEN _driver_add_lease_enqueue(key_prefix_len, range, ipaddr, prefix)
    ELSE IF action = "IPPOOL_TOOL_REMOVE"
    THEN _driver_remove_lease_enqueue(key_prefix_len, range, ipaddr, prefix)
    ELSE IF action = "IPPOOL_TOOL_RELEASE"
    THEN _driver_release_lease_enqueue(key_prefix_len, range, ipaddr, prefix)
    ELSE _driver_show_lease_enqueue(key_prefix_len, range, ipaddr, prefix)

process(action, out, ipaddr, reply) ==
    IF action = "IPPOOL_TOOL_ADD" THEN _driver_add_lease_process(out, ipaddr, reply)
    ELSE IF action = "IPPOOL_TOOL_REMOVE" THEN _driver_remove_lease_process(out, ipaddr, reply)
    ELSE IF action = "IPPOOL_TOOL_RELEASE" THEN _driver_release_lease_process(out, ipaddr, reply)
    ELSE _driver_show_lease_process(out, ipaddr, reply)

(***************************************************************************)
(* driver_do_lease, in pieces.  op = [action, start, end, prefix, range,   *)
(* pool_len].                                                              *)
(***************************************************************************)
MAX_PIPELINED == 1000

\* EnqueueStep with "i <= MAX_PIPELINED" as the loop bound.
EnqueueStep_le(s, op, bld) ==
    IF ~((s.i <= MAX_PIPELINED) /\ s.more) \/ s.broke THEN s
    ELSE LET e == enqueue(op.action, op.pool_len, op.range, s.ipaddr, op.prefix)
             n == ipaddr_next(s.ipaddr, op.end, op.prefix, bld)
         IN IF e.ret < 0 THEN [s EXCEPT !.broke = TRUE]
            ELSE [i         |-> s.i + 1,
                  ipaddr    |-> n.ipaddr,
                  more      |-> n.ret,
                  broke     |-> FALSE,
                  pipelined |-> s.pipelined + e.ret,
                  cmds      |-> s.cmds \o e.cmds,
                  addrs     |-> Append(s.addrs, s.ipaddr)]

\* One pass of
\*   for (i = 0; (i < MAX_PIPELINED) && more; i++, more = ipaddr_next(...))
\* when the loop has not ended, nothing otherwise.
\* s = [i, ipaddr, more, broke, pipelined, cmds, addrs]; cmds are the commands
\* appended to the connection, addrs the addresses handed to enqueue.
EnqueueStep(s, op, bld) ==
    IF ~((s.i < MAX_PIPELINED) /\ s.more) \/ s.broke THEN s
    ELSE LET e == enqueue(op.action, op.pool_len, op.range, s.ipaddr, op.prefix)
             n == ipaddr_next(s.ipaddr, op.end, op.prefix, bld)
         IN IF e.ret < 0 THEN [s EXCEPT !.broke = TRUE]
            ELSE [i         |-> s.i + 1,
                  ipaddr    |-> n.ipaddr,
                  more      |-> n.ret,
                  broke     |-> FALSE,
                  pipelined |-> s.pipelined + e.ret,
                  cmds      |-> s.cmds \o e.cmds,
                  addrs     |-> Append(s.addrs, s.ipaddr)]

\* n passes in a row (halved, so that evaluation nests only logarithmically).
RECURSIVE EnqueuePasses(_, _, _, _)
EnqueuePasses(s, n, op, bld) ==
    IF n = 0 THEN s
    ELSE IF n = 1 THEN EnqueueStep(s, op, bld)
    ELSE LET t == EnqueuePasses(s, n \div 2, op, bld)
         IN IF t.broke \in BOOLEAN THEN EnqueuePasses(t, n - (n \div 2), op, bld) ELSE t

\* ipaddr = acked; then the enqueue loop, entered with more as it stands.
\* The loop condition is evaluated at most MAX_PIPELINED + 1 times.
EnqueueLoop(acked, more, op, bld) ==
    EnqueuePasses([i |-> 0, ipaddr |-> acked, more |-> more, broke |-> FALSE,
                   pipelined |-> 0, cmds |-> <<>>, addrs |-> <<>>],
                  MAX_PIPELINED + 1, op, bld)

\* One pass of the reply loop.  s = [out, to_process, calls].
ProcessStep(s, reply, op, bld) ==
    LET r == process(op.action, s.out, s.to_process, reply)
    IN IF r.ret < 0 THEN [s EXCEPT !.out = r.out, !.calls = @ + 1]
       ELSE [out        |-> r.out,
             to_process |-> ipaddr_next(s.to_process, op.end, op.prefix, bld).ipaddr,
             calls      |-> s.calls + 1]

RECURSIVE ProcessPasses(_, _, _, _, _, _)
ProcessPasses(s, replies, lo, hi, op, bld) ==
    IF lo > hi THEN s
    ELSE IF lo = hi THEN ProcessStep(s, replies[lo], op, bld)
    ELSE LET mid == (lo + hi) \div 2
             t == ProcessPasses(s, replies, lo, mid, op, bld)
         IN IF t.calls >= 0 THEN ProcessPasses(t, replies, mid + 1, hi, op, bld) ELSE t

\* for (i = 0; i < reply_cnt; i++) { ret = process(...); if (ret < 0) continue;
\*                                   ipaddr_next(&to_process, ...); }
ProcessLoop(out, acked, replies, reply_cnt, op, bld) ==
    ProcessPasses([out |-> out, to_process |-> acked, calls |-> 0],
                  replies, 1, reply_cnt, op, bld)

\* if (s_ret == REDIS_RCODE_ERROR) in place of the test of line 498.
LoopFailed_erroronly(s_ret_) == s_ret_ = "REDIS_RCODE_ERROR"

\* The test of line 498 left out.
LoopFailed_never(s_ret_) == FALSE

\* if (s_ret != REDIS_RCODE_SUCCESS): the batch failed.
LoopFailed(s_ret_) == s_ret_ # "REDIS_RCODE_SUCCESS"

\* The empty aggregate main hands in: a count, or a list of leases.
EmptyOut(action) == IF action = "IPPOOL_TOOL_SHOW" THEN <<>> ELSE 0

(***************************************************************************)
(* State                                                                   *)
(***************************************************************************)
VARIABLES
    build,      \* how the tool was compiled: [have128, shift]
    itStart,    \* iteration: first address of the interval
    itEnd,      \* iteration: the end address handed to ipaddr_next
    itPrefix,   \* iteration: the prefix length handed to ipaddr_next
    itCur,      \* iteration: the address ipaddr_next mutates
    itPrev,     \* iteration: the address before the latest call
    itMore,     \* iteration: what the latest call returned
    itCalls,    \* iteration: number of calls made
    store,      \* the store: [zset, hash, device]
    scScript,   \* scripts: the script run last ("none", "release", "remove")
    scAddr,     \* scripts: its ARGV[1]
    scRet,      \* scripts: the integer it returned
    scPre,      \* scripts: the store it started from
    scRuns,     \* scripts: number of script runs so far
    scLast,     \* scripts: [script, addr, ret] of the run before the last one
    paStr,      \* range parsing: the range text of the operation (p->name)
    paPrefix,   \* range parsing: the prefix given with -p (0 when none)
    paOut,      \* range parsing: [ret, start, end, prefix, exit] once parsed
    paPc,       \* range parsing: "parse", "done", or "idle"
    arIn,       \* arithmetic: the function called and its arguments
    arOut,      \* arithmetic: what it returned, NoResult before the call
    pool_arg,   \* main: strlen(pool_arg), the length of the pool name
    range_arg,  \* main: the range given with -R, Nil when none
    ops,        \* main: the queued operations
    p_op,       \* main: p, as the index of the operation being run
    pc,         \* where the program is: "main", "while", "for", "ret", "exit"
    exitStatus, \* main: the exit status, -1 while running
    reported,   \* main: what was reported (counts, lease lists), in order
    done,       \* history: [store0, redirects] of each operation reported so far
    ipaddr,     \* driver_do_lease: the cursor
    acked,      \* driver_do_lease: the checkpoint
    more,       \* driver_do_lease
    s_ret,      \* driver_do_lease
    replies,    \* driver_do_lease
    reply_cnt,  \* driver_do_lease
    out,        \* driver_do_lease: *out, the caller's count or lease list
    ret,        \* driver_do_lease: the value returned
    pipes,      \* history: per attempt, the addresses enqueued and how it ended
    tries,      \* history: attempts made so far in the current batch
    redirects,  \* history: redirects so far in the current operation
    processed,  \* history: number of replies handed to the process callback
    store0      \* history: the store when the operation started

iterVars == <<build, itStart, itEnd, itPrefix, itCur, itPrev, itMore, itCalls>>

scriptVars == <<scScript, scAddr, scRet, scPre, scRuns, scLast>>

parseVars == <<paStr, paPrefix, paOut, paPc>>

arithVars == <<arIn, arOut>>

mainVars == <<pool_arg, range_arg, ops, p_op, exitStatus, reported, done>>

driverVars == <<ipaddr, acked, more, s_ret, replies, reply_cnt, out, ret>>

histVars == <<pipes, tries, redirects, processed, store0>>

vars == <<iterVars, store, scriptVars, parseVars, arithVars, mainVars, pc, driverVars, histVars>>

NoAddr == [af |-> "AF_UNSPEC", addr |-> <<>>]

EmptyStore == [zset |-> <<>>, hash |-> <<>>, device |-> <<>>]

DefaultBuild == [have128 |-> TRUE, shift |-> "zero", endian |-> "little"]

IterIdle ==
    /\ itStart = NoAddr
    /\ itEnd = NoAddr
    /\ itPrefix = 0
    /\ itCur = NoAddr
    /\ itPrev = NoAddr
    /\ itMore = FALSE
    /\ itCalls = 0

ScriptIdle ==
    /\ scScript = "none"
    /\ scAddr = Nil
    /\ scRet = 0
    /\ scPre = EmptyStore
    /\ scRuns = 0
    /\ scLast = [script |-> "none", addr |-> Nil, ret |-> 0]

ParseIdle ==
    /\ paStr = [form |-> "bad"]
    /\ paPrefix = 0
    /\ paOut = [ret |-> 0]
    /\ paPc = "idle"

NoResult == [state |-> "none"]

ArithIdle ==
    /\ arIn = [fn |-> "none"]
    /\ arOut = NoResult

DriverIdle ==
    /\ ipaddr = NoAddr
    /\ acked = NoAddr
    /\ more = FALSE
    /\ s_ret = "REDIS_RCODE_SUCCESS"
    /\ replies = <<>>
    /\ reply_cnt = 0
    /\ out = 0
    /\ ret = 0
    /\ pipes = <<>>
    /\ tries = 0
    /\ redirects = 0
    /\ processed = 0
    /\ store0 = EmptyStore

MainIdle ==
    /\ pool_arg = 0
    /\ range_arg = Nil
    /\ ops = <<>>
    /\ p_op = 0
    /\ pc = "idle"
    /\ exitStatus = -1
    /\ reported = <<>>
    /\ done = <<>>
    /\ DriverIdle

(***************************************************************************)
(* Inputs of the iteration: valid intervals, near zero and near the top of *)
(* the address space, with the end a whole number of steps after the start *)
(***************************************************************************)
MaxSteps == 3
MaxCalls == 6

Builds == {DefaultBuild}
          \cup {[have128 |-> FALSE, shift |-> u, endian |-> "little"] : u \in ShiftOutcomes}

\* Host-order value to fr_ipaddr_t.
MkAddr(af, w) == [af |-> af,
                  addr |-> IF af = "AF_INET6" THEN htonlll_native(w) ELSE htonl(w)]

\* m + k steps of 2^(width - plen) fit in the address space.
Fits(n, plen) == plen >= 8 \/ n < Pow2(plen)

Intervals(af) ==
    LET n == AddrWidth(af) \div LimbBits
    IN UNION {
         {  [prefix |-> plen,
             start  |-> MkAddr(af, WAdd(WShl(WordOf(m, n), AddrWidth(af) - plen), WordOf(o, n))),
             end    |-> MkAddr(af, WAdd(WShl(WordOf(m + k, n), AddrWidth(af) - plen), WordOf(o, n)))]
            : m \in {mm \in 0..1 : Fits(mm + k, plen)},
              o \in {oo \in 0..1 : oo = 0 \/ plen < AddrWidth(af)} }
         \cup
         {  [prefix |-> plen,
             start  |-> MkAddr(af, WSub(WOnes(n), WShl(WordOf(j + k, n), AddrWidth(af) - plen))),
             end    |-> MkAddr(af, WSub(WOnes(n), WShl(WordOf(j, n), AddrWidth(af) - plen)))]
            : j \in {jj \in 0..1 : Fits(jj + k, plen)} }
         : plen \in 1..AddrWidth(af), k \in 0..MaxSteps }

(***************************************************************************)
(* Iteration: for (more = true; more; more = ipaddr_next(&ipaddr, end, p)) *)
(***************************************************************************)
InitIter ==
    /\ build \in Builds
    /\ \E af \in {"AF_INET", "AF_INET6"} : \E iv \in Intervals(af) :
          /\ itStart = iv.start
          /\ itEnd = iv.end
          /\ itPrefix = iv.prefix
          /\ itCur = iv.start
          /\ itPrev = iv.start
    /\ (itStart.af = "AF_INET" => build = DefaultBuild)
    /\ itMore = TRUE
    /\ itCalls = 0
    /\ store = EmptyStore
    /\ ScriptIdle
    /\ ParseIdle
    /\ ArithIdle
    /\ MainIdle

IterNext ==
    /\ itMore
    /\ itCalls < MaxCalls
    /\ LET r == ipaddr_next(itCur, itEnd, itPrefix, build)
       IN /\ itPrev' = itCur
          /\ itCur' = r.ipaddr
          /\ itMore' = r.ret
    /\ itCalls' = itCalls + 1
    /\ UNCHANGED <<build, itStart, itEnd, itPrefix, store, scriptVars, parseVars, arithVars>>
    /\ UNCHANGED <<mainVars, pc, driverVars, histVars>>

NextIter == IterNext

SpecIter == InitIter /\ [][NextIter]_vars

\* Host-order value of an address, as a native-width word.
HostInt(a) == IF a.af = "AF_INET6" THEN ntohlll_native(a.addr) ELSE ntohl(a.addr)

\* ((end - start) >> (width - p)): the number of steps from start to end.
StepsBetween(start, end, prefix) ==
    WShr(WSub(HostInt(end), HostInt(start)), AddrWidth(start.af) - prefix)

\* 2^(width - p) as a word of the address width.
StepOf(af, prefix) ==
    WShl(WordOf(1, AddrWidth(af) \div LimbBits), AddrWidth(af) - prefix)

\* What repeated ipaddr_next must do on an interval: every call that
\* returns true moves the address up by exactly one step and never past
\* end; the calls returning true are at most the steps from start to end;
\* the call that returns false is made at end, leaves the address alone,
\* and by then ((end - start) >> (width - p)) + 1 addresses were produced.
EnumeratesInterval ==
    LET n == AddrWidth(itStart.af) \div LimbBits
    IN /\ ~WGt(HostInt(itCur), HostInt(itEnd))
       /\ (itCalls > 0 /\ itMore =>
              /\ HostInt(itCur) = WAdd(HostInt(itPrev), StepOf(itStart.af, itPrefix))
              /\ WGt(HostInt(itCur), HostInt(itPrev))
              /\ ~WGt(WordOf(itCalls, n), StepsBetween(itStart, itEnd, itPrefix)))
       /\ (itCalls > 0 /\ ~itMore =>
              /\ itPrev = itEnd
              /\ itCur = itEnd
              /\ WordOf(itCalls - 1, n) = StepsBetween(itStart, itEnd, itPrefix))

\* C4: for every valid IPv4 interval and prefix 1..32, repeated ipaddr_next
\* from start yields ((end-start) >> (32-p)) + 1 addresses, each 2^(32-p)
\* above the one before, the last being end; the call at end returns false
\* and leaves the address unchanged.
C4_Ipv4Enumeration == itStart.af = "AF_INET" => EnumeratesInterval

C4_Witness ==
    /\ itStart.af = "AF_INET"
    /\ ~itMore
    /\ itCalls = MaxSteps + 1
    /\ itPrefix < 32
    /\ itCur = itEnd

\* C5: for every valid IPv6 interval and prefix 1..128, repeated ipaddr_next
\* built on the two-64-bit-half arithmetic ends after
\* ((end-start) >> (128-p)) + 1 strictly increasing addresses, the last
\* being end, steps of 2^64 or more included.
C5_Ipv6HalvesEnumeration ==
    (itStart.af = "AF_INET6" /\ ~build.have128) => EnumeratesInterval

(***************************************************************************)
(* The scripts run on their own: from any state of the keys of two         *)
(* addresses and two devices, run release or remove on an address.         *)
(***************************************************************************)
MaxRuns == 2

ScriptAddrs == {"a1", "a2"}
ScriptDevs == {"d1", "d2"}

ScriptStores ==
    { [zset |-> [a1 |-> z1, a2 |-> z2],
       hash |-> [a1 |-> [device |-> d, gateway |-> g, range |-> r],
                 a2 |-> [device |-> d2, gateway |-> Nil, range |-> Nil]],
       device |-> [x \in ScriptDevs |-> x \in ks]]
      : z1 \in {NoScore, 0, 7}, z2 \in {NoScore, 7},
        d \in {Nil} \cup ScriptDevs, g \in {Nil, "gw"}, r \in {Nil, "rg"},
        d2 \in {Nil, "d1"}, ks \in SUBSET ScriptDevs }

InitScript ==
    /\ build = DefaultBuild
    /\ IterIdle
    /\ store \in ScriptStores
    /\ ScriptIdle
    /\ ParseIdle
    /\ ArithIdle
    /\ MainIdle

RunScript(script, argv1) ==
    /\ scRuns < MaxRuns
    /\ \E r \in {IF script = "release" THEN lua_release_cmd(store, argv1)
                                       ELSE lua_remove_cmd(store, argv1)} :
          /\ store' = r.db
          /\ scRet' = r.ret
    /\ scScript' = script
    /\ scAddr' = argv1
    /\ scPre' = store
    /\ scRuns' = scRuns + 1
    /\ scLast' = [script |-> scScript, addr |-> scAddr, ret |-> scRet]
    /\ UNCHANGED <<iterVars, parseVars, arithVars, mainVars, pc, driverVars, histVars>>

RunRelease == \E a \in ScriptAddrs : RunScript("release", a)

RunRemove == \E a \in ScriptAddrs : RunScript("remove", a)

NextScript == RunRelease \/ RunRemove

SpecScript == InitScript /\ [][NextScript]_vars

\* C8: after remove, the address has no index entry, no metadata hash and,
\* if the metadata named a device, no device key.
C8_RemoveDeletesAll ==
    scScript = "remove" =>
        /\ store.zset[scAddr] = NoScore
        /\ ~HashExists(store, scAddr)
        /\ (scPre.hash[scAddr].device # Nil => ~store.device[scPre.hash[scAddr].device])

\* C9: remove returns 1 exactly when the address was in the index, and in
\* the partially cleaned state (no index entry, metadata with a device) the
\* metadata and the device key are still deleted.
C9_RemoveReturnsIndexDeletion ==
    scScript = "remove" =>
        /\ (scRet = 1) = (scPre.zset[scAddr] # NoScore)
        /\ scRet \in {0, 1}
        /\ (scPre.zset[scAddr] = NoScore /\ scPre.hash[scAddr].device # Nil
              => /\ ~HashExists(store, scAddr)
                 /\ ~store.device[scPre.hash[scAddr].device])

\* The store a release of an indexed address with a non-zero score must leave.
ReleasedStore(pre, addr) ==
    [zset   |-> [pre.zset EXCEPT ![addr] = 0],
     hash   |-> pre.hash,
     device |-> [x \in DOMAIN pre.device |->
                   pre.device[x] /\ x # pre.hash[addr].device]]

C11_ScriptsIdempotent ==
    (scRuns >= 2 /\ scLast.script = scScript /\ scLast.addr = scAddr) =>
        /\ scRet = 0
        /\ store = scPre

\* C11 witness: a remove that deleted a lease (returned 1) was repeated.
C11_Witness ==
    /\ scRuns >= 2
    /\ scScript = "remove"
    /\ scLast = [script |-> "remove", addr |-> scAddr, ret |-> 1]
    /\ scRet = 0
    /\ store = scPre
    /\ ~HashExists(store, scAddr)

(***************************************************************************)
(* Inputs of an operation: an IPv4 interval, short or longer than one and  *)
(* than two pipelines, and a pool whose addresses are in every mix of      *)
(* absent / free / leased / half removed.                                  *)
(***************************************************************************)
MaxSmall == 3
MaxRedirects == 2

Actions == {"IPPOOL_TOOL_ADD", "IPPOOL_TOOL_REMOVE", "IPPOOL_TOOL_RELEASE", "IPPOOL_TOOL_SHOW"}

Kinds == <<"absent", "free", "leased", "partial">>

\* The interval of n prefixes that starts at the address with bytes b.
IntervalOf(b, plen, n) ==
    [start  |-> [af |-> "AF_INET", addr |-> b],
     end    |-> MkAddr("AF_INET", WAdd(ntohl(b), WordOf((n - 1) * Pow2(32 - plen), 2))),
     prefix |-> plen]

SmallIntervals ==
    { IntervalOf(<<10, 0, 0, 254>>, 32, n) : n \in 1..MaxSmall }
    \cup { IntervalOf(<<10, 0, 0, 248>>, 30, n) : n \in 1..MaxSmall }

LargeIntervals ==
    { IntervalOf(<<10, 0, 254, 0>>, 32, n)
        : n \in {MAX_PIPELINED, MAX_PIPELINED + 1, 2 * MAX_PIPELINED + 1} }

\* Number of addresses of an interval, and the position of an address in it.
SmallInt(w) == w[1] + LimbBase * w[2]
CountOf(iv) == SmallInt(StepsBetween(iv.start, iv.end, iv.prefix)) + 1
OrdinalOf(iv, addr) ==
    SmallInt(StepsBetween(iv.start, [af |-> iv.start.af, addr |-> addr], iv.prefix))

\* The k-th address of an interval (k from 0), by arithmetic on the start.
NthAddr(iv, k) ==
    MkAddr(iv.start.af, WAdd(HostInt(iv.start), WordOf(k * Pow2(32 - iv.prefix), 2)))

AddrsOf(iv) == AsSeq([k \in 1..CountOf(iv) |-> NthAddr(iv, k - 1)])

\* The lease of the k-th address when it is of the given kind.
ScoreOf(kind, k) == IF kind = "leased" THEN 100 + k
                    ELSE IF kind = "free" THEN 0 ELSE NoScore

HashOf(kind, k) ==
    IF kind = "absent" THEN NoHash
    ELSE IF kind = "free" THEN [device |-> Nil, gateway |-> Nil, range |-> "rg"]
    ELSE [device |-> ToString(k), gateway |-> "gw", range |-> "rg"]

\* The pool in which the k-th address of iv is of kind kindOf[k].
MkStore(iv, kindOf) ==
    LET n == CountOf(iv)
        strs == {SprintIp(NthAddr(iv, k), iv.prefix) : k \in 0..(n - 1)}
    IN [zset   |-> [ip \in strs |-> ScoreOf(kindOf[OrdinalOf(iv, ip.addr)],
                                            OrdinalOf(iv, ip.addr))] @@ <<>>,
        hash   |-> [ip \in strs |-> HashOf(kindOf[OrdinalOf(iv, ip.addr)],
                                           OrdinalOf(iv, ip.addr))] @@ <<>>,
        device |-> [d \in {ToString(k) : k \in 0..(n - 1)} |-> TRUE] @@ <<>>]

KindPatterns(iv) ==
    IF CountOf(iv) <= MaxSmall
    THEN [0..(CountOf(iv) - 1) -> {Kinds[j] : j \in 1..4}]
    ELSE {[k \in 0..(CountOf(iv) - 1) |-> Kinds[(k % 4) + 1]]}

\* The operations queued on one command line for an interval: any one, or
\* on a short interval two in a row.
OpSeqs(iv) ==
    { <<a>> : a \in Actions }
    \cup (IF CountOf(iv) <= MaxSmall
          THEN { <<"IPPOOL_TOOL_ADD", "IPPOOL_TOOL_ADD">>,
                 <<"IPPOOL_TOOL_RELEASE", "IPPOOL_TOOL_SHOW">> }
          ELSE {})

(***************************************************************************)
(* main (operations loop) and driver_do_lease                              *)
(***************************************************************************)
Op == ops[p_op]

Init ==
    /\ build = DefaultBuild
    /\ IterIdle
    /\ ScriptIdle
    /\ ParseIdle
    /\ ArithIdle
    /\ \E iv \in SmallIntervals \cup LargeIntervals :
          \E seq \in OpSeqs(iv) : \E kindOf \in KindPatterns(iv) :
            /\ ops = [k \in 1..Len(seq) |->
                        [action |-> seq[k], start |-> iv.start, end |-> iv.end,
                         prefix |-> iv.prefix, range |-> "newrg",
                         pool_len |-> 4]]
            /\ store = MkStore(iv, kindOf)
    /\ pool_arg = 4
    /\ range_arg = "newrg"
    /\ p_op = 1
    /\ pc = "main"
    /\ exitStatus = -1
    /\ reported = <<>>
    /\ done = <<>>
    /\ DriverIdle

\* for (p = ops; (p < end) && ...; p++) switch (p->action): call the driver.
MainCall ==
    /\ pc = "main"
    /\ p_op <= Len(ops)
    /\ Op.start.af # "AF_UNSPEC"
    /\ ipaddr' = Op.start
    /\ more' = TRUE
    /\ s_ret' = "REDIS_RCODE_SUCCESS"
    /\ replies' = <<>>
    /\ reply_cnt' = 0
    /\ out' = EmptyOut(Op.action)
    /\ pipes' = <<>>
    /\ tries' = 0
    /\ redirects' = 0
    /\ processed' = 0
    /\ store0' = store
    /\ pc' = "while"
    /\ UNCHANGED <<iterVars, store, scriptVars, parseVars, arithVars, mainVars, acked, ret>>

\* The operations are done: return 0.
MainExit ==
    /\ pc = "main"
    /\ ~(p_op <= Len(ops) /\ Op.start.af # "AF_UNSPEC")
    /\ exitStatus' = 0
    /\ pc' = "exit"
    /\ UNCHANGED <<iterVars, store, scriptVars, parseVars, arithVars, pool_arg, range_arg, ops, p_op, reported, done, driverVars, histVars>>

\* What fr_redis_cluster_state_init returns: TRY_AGAIN to run the body, or
\* a failure when no connection to the shard can be had.
StateInitOutcomes == {"REDIS_RCODE_TRY_AGAIN", "REDIS_RCODE_ERROR"}

\* What fr_redis_cluster_state_next makes of a submitted pipeline.
StateNextOutcomes == {"REDIS_RCODE_SUCCESS", "REDIS_RCODE_TRY_AGAIN",
                      "REDIS_RCODE_ERROR", "REDIS_RCODE_RECONNECT"}

\* Number of commands an enqueue callback appends for one address.
CmdsPerAddr(action) == enqueue(action, 0, "", NoAddr, 0).ret

\* The replies rs with the k-th one replaced by a nil reply (k = 0: as they are).
WithUnexpected(rs, k) == IF k = 0 THEN rs ELSE [rs EXCEPT ![k] = NilReply]

\* BatchBegin with the checkpoint set to the start of the interval.
BatchBegin_fromstart ==
    /\ pc = "while"
    /\ more
    /\ acked' = Op.start
    /\ reply_cnt' = 0
    /\ s_ret' \in StateInitOutcomes
    /\ tries' = 0
    /\ pc' = "for"
    /\ UNCHANGED <<iterVars, store, scriptVars, parseVars, arithVars, mainVars, ipaddr, more, replies, out, ret>>
    /\ UNCHANGED <<pipes, redirects, processed, store0>>

\* while (more) { acked = ipaddr; s_ret = fr_redis_cluster_state_init(...)
BatchBegin ==
    /\ pc = "while"
    /\ more
    /\ acked' = ipaddr
    /\ reply_cnt' = 0
    /\ s_ret' \in StateInitOutcomes
    /\ tries' = 0
    /\ pc' = "for"
    /\ UNCHANGED <<iterVars, store, scriptVars, parseVars, arithVars, mainVars, ipaddr, more, replies, out, ret>>
    /\ UNCHANGED <<pipes, redirects, processed, store0>>

\* while (more) is false: return 0.
DriverDone ==
    /\ pc = "while"
    /\ ~more
    /\ ret' = 0
    /\ pc' = "ret"
    /\ UNCHANGED <<iterVars, store, scriptVars, parseVars, arithVars, mainVars>>
    /\ UNCHANGED <<ipaddr, acked, more, s_ret, replies, reply_cnt, out, histVars>>

\* The body of the for loop: reset the cursor, enqueue, submit, collect,
\* and fr_redis_cluster_state_next.  A pipeline that succeeds was executed
\* by the store, one reply per command; a redirected or failed one was not.
\* An empty pipeline sends nothing and collects nothing.  bad = 0 when the
\* store answers as its commands define; otherwise the bad-th reply of the
\* pipeline comes back as a nil reply.
AttemptWith(outcome, bad) ==
    /\ pc = "for"
    /\ s_ret = "REDIS_RCODE_TRY_AGAIN"
    /\ \E a \in {EnqueueLoop(acked, more, Op, build)} :
          /\ a.pipelined = 0 => outcome = "REDIS_RCODE_SUCCESS"
          /\ bad <= a.pipelined
          /\ outcome = "REDIS_RCODE_TRY_AGAIN" => redirects < MaxRedirects
          /\ ipaddr' = a.ipaddr
          /\ more' = a.more
          /\ s_ret' = outcome
          /\ IF outcome = "REDIS_RCODE_SUCCESS"
             THEN \E r \in {ExecPipeline(store, a.cmds)} :
                    /\ store' = r.db
                    /\ replies' = WithUnexpected(r.replies, bad)
                    /\ reply_cnt' = Len(r.replies)
             ELSE /\ store' = store
                  /\ replies' = << ErrorReply(outcome) >>
                  /\ reply_cnt' = 1
          /\ pipes' = Append(pipes, [addrs |-> a.addrs, outcome |-> outcome, bad |-> bad])
          /\ redirects' = redirects + (IF outcome = "REDIS_RCODE_TRY_AGAIN" THEN 1 ELSE 0)
    /\ tries' = tries + 1
    /\ UNCHANGED <<iterVars, scriptVars, parseVars, arithVars, mainVars, pc, acked, out, ret, processed, store0>>

Attempt == \E outcome \in StateNextOutcomes : AttemptWith(outcome, 0)

\* A pipeline that succeeds, with the last reply of one address's group
\* replaced by a nil reply.
AttemptUnexpected ==
    \E j \in 1..MaxSmall : AttemptWith("REDIS_RCODE_SUCCESS", j * CmdsPerAddr(Op.action))

\* if (s_ret != REDIS_RCODE_SUCCESS) { free; return -1; }
BatchFail ==
    /\ pc = "for"
    /\ s_ret # "REDIS_RCODE_TRY_AGAIN"
    /\ LoopFailed(s_ret)
    /\ replies' = <<>>
    /\ ret' = -1
    /\ pc' = "ret"
    /\ UNCHANGED <<iterVars, store, scriptVars, parseVars, arithVars, mainVars>>
    /\ UNCHANGED <<ipaddr, acked, more, s_ret, reply_cnt, out, histVars>>

\* if (process) { the reply loop }  free the replies; next batch.
BatchProcess ==
    /\ pc = "for"
    /\ s_ret # "REDIS_RCODE_TRY_AGAIN"
    /\ ~LoopFailed(s_ret)
    /\ \E r \in {ProcessLoop(out, acked, replies, reply_cnt, Op, build)} :
          /\ out' = r.out
          /\ processed' = processed + r.calls
    /\ replies' = <<>>
    /\ pc' = "while"
    /\ UNCHANGED <<iterVars, store, scriptVars, parseVars, arithVars, mainVars>>
    /\ UNCHANGED <<ipaddr, acked, more, s_ret, reply_cnt, ret>>
    /\ UNCHANGED <<pipes, tries, redirects, store0>>

\* if (driver_..._lease(...) < 0) exit(1);
MainFail ==
    /\ pc = "ret"
    /\ ret < 0
    /\ exitStatus' = 1
    /\ pc' = "exit"
    /\ UNCHANGED <<iterVars, store, scriptVars, parseVars, arithVars, pool_arg, range_arg, ops, p_op, reported, done, driverVars, histVars>>

\* INFO("Added ... addresses/prefixes", count) and the like; next operation.
MainReport ==
    /\ pc = "ret"
    /\ ~(ret < 0)
    /\ reported' = Append(reported, [action |-> Op.action, out |-> out])
    /\ done' = Append(done, [store0 |-> store0, redirects |-> redirects])
    /\ p_op' = p_op + 1
    /\ pc' = "main"
    /\ UNCHANGED <<iterVars, store, scriptVars, parseVars, arithVars, pool_arg, range_arg, ops, exitStatus, driverVars, histVars>>

Next ==
    \/ MainCall
    \/ MainExit
    \/ BatchBegin
    \/ DriverDone
    \/ Attempt
    \/ BatchFail
    \/ BatchProcess
    \/ MainFail
    \/ MainReport

Spec == Init /\ [][Next]_vars

(***************************************************************************)
(* What a run is measured against                                          *)
(***************************************************************************)
\* The operation is in progress or has just returned to main.
InOp == p_op \in 1..Len(ops) /\ pc \in {"while", "for", "ret", "exit"}

\* The addresses handed to the enqueue callback by attempts lo..hi, in order.
RECURSIVE EnqueuedIn(_, _, _)
EnqueuedIn(ps, lo, hi) ==
    IF lo > hi THEN <<>> ELSE EnqueuedIn(ps, lo, hi - 1) \o ps[hi].addrs

\* driver_do_lease when every pipeline succeeds at its first attempt: the
\* batches are enqueued, executed and processed one after the other.
RECURSIVE Uninterrupted(_, _, _, _, _, _)
Uninterrupted(db, o, cur, m, op, bld) ==
    IF ~m THEN [db |-> db, out |-> o]
    ELSE LET a  == EnqueueLoop(cur, m, op, bld)
             r  == ExecPipeline(db, a.cmds)
             pr == ProcessLoop(o, cur, r.replies, Len(r.replies), op, bld)
         IN Uninterrupted(r.db, pr.out, a.ipaddr, a.more, op, bld)

\* C1: after every redirect the next attempt hands to the enqueue callback
\* exactly the addresses the redirected attempt handed to it, starting at
\* the checkpoint acked; also when the redirected attempt was the one that
\* reached the end of the interval.
C1_RedirectReplaysBatch ==
    \A k \in 1..(Len(pipes) - 1) :
        pipes[k].outcome = "REDIS_RCODE_TRY_AGAIN" => pipes[k + 1].addrs = pipes[k].addrs

\* C2: when an operation that met a redirect returns success, every attempt
\* after a redirect started at the checkpoint, and the aggregate handed back
\* is the one a run over the same interval and the same initial pool gives
\* when no pipeline is redirected.
C2_RedirectKeepsCount ==
    (InOp /\ pc = "ret" /\ ret = 0 /\ redirects > 0) =>
        /\ \A k \in 1..(Len(pipes) - 1) :
              (pipes[k].outcome = "REDIS_RCODE_TRY_AGAIN" /\ pipes[k + 1].addrs # <<>>)
                  => pipes[k + 1].addrs[1] = pipes[k].addrs[1]
        /\ out = Uninterrupted(store0, EmptyOut(Op.action), Op.start, TRUE, Op, build).out

\* C3: while no pipeline has been redirected or has failed, the addresses
\* handed to the enqueue callback are the addresses of the interval from
\* its start, each once and in increasing order, every pipeline holds
\* between 1 and MAX_PIPELINED addresses, and when the operation returns
\* success the whole interval up to its end address was enqueued and every
\* reply was handed to the process callback.
C3_PlainRunEnumerates ==
    (InOp /\ \A k \in 1..Len(pipes) : pipes[k].outcome = "REDIS_RCODE_SUCCESS") =>
        LET flat == EnqueuedIn(pipes, 1, Len(pipes))
            all  == AddrsOf(Op)
        IN /\ Len(flat) <= Len(all)
           /\ flat = SubSeq(all, 1, Len(flat))
           /\ \A k \in 1..Len(pipes) :
                 Len(pipes[k].addrs) >= 1 /\ Len(pipes[k].addrs) <= MAX_PIPELINED
           /\ (pc = "ret" /\ ret = 0) =>
                 /\ flat = all
                 /\ flat[Len(flat)] = Op.end
                 /\ processed = Len(all) * CmdsPerAddr(Op.action)

\* C3 witness: an interval longer than two pipelines was run to success in
\* three pipelines, none redirected.
C3_Witness ==
    /\ InOp /\ pc = "ret" /\ ret = 0
    /\ Len(pipes) = 3
    /\ \A k \in 1..3 : pipes[k].outcome = "REDIS_RCODE_SUCCESS"
    /\ Len(pipes[1].addrs) = MAX_PIPELINED
    /\ Len(pipes[3].addrs) = 1

\* The number of replies of the pipelines, among the first n, that succeeded.
RECURSIVE SucceededReplies(_, _, _)
SucceededReplies(ps, n, action) ==
    IF n = 0 THEN 0
    ELSE SucceededReplies(ps, n - 1, action)
         + (IF ps[n].outcome = "REDIS_RCODE_SUCCESS"
            THEN Len(ps[n].addrs) * CmdsPerAddr(action) ELSE 0)

\* C6: once a batch has ended with an outcome that is neither success nor
\* a redirect, no reply of that batch reaches the process callback, no
\* further attempt or batch is started, the driver returns -1, and main
\* exits with status 1 having reported nothing for the operation.
C6_FailureAborts ==
    (p_op \in 1..Len(ops) /\ s_ret \notin {"REDIS_RCODE_SUCCESS", "REDIS_RCODE_TRY_AGAIN"}) =>
        /\ pc \in {"for", "ret", "exit"}
        /\ \A k \in 1..(Len(pipes) - 1) :
              pipes[k].outcome \in {"REDIS_RCODE_SUCCESS", "REDIS_RCODE_TRY_AGAIN"}
        /\ tries > 0 => pipes[Len(pipes)].outcome = s_ret
        /\ processed = SucceededReplies(pipes, Len(pipes), Op.action)
        /\ pc = "ret" => ret = -1
        /\ pc = "exit" => exitStatus = 1
        /\ Len(reported) = p_op - 1

\* C6 witness: the second batch of an operation was lost to a dropped
\* connection after the first had been processed, and the tool has exited.
C6_Witness ==
    /\ p_op \in 1..Len(ops)
    /\ pc = "exit"
    /\ exitStatus = 1
    /\ s_ret = "REDIS_RCODE_RECONNECT"
    /\ Len(pipes) >= 2
    /\ processed > 0
    /\ reported = <<>>

\* C7: every lease record of a Show carries the address its reply group
\* was issued for: the score and the device in the record are those the
\* pool holds for the record's address.
C7_ShowRecordsCarryIssuingAddress ==
    (InOp /\ Op.action = "IPPOOL_TOOL_SHOW") =>
        \A i \in 1..Len(out) :
            LET ip_buff == SprintIp(out[i].ipaddr, Op.prefix)
            IN /\ ZSCORE(store0, ip_buff) # NoScore
               /\ out[i].next_event = ZSCORE(store0, ip_buff)
               /\ out[i].device = HGET(store0, ip_buff, "device")

\* The operations reported so far were the given ones, in order.
Ran(seq) ==
    /\ Len(reported) = Len(seq)
    /\ \A k \in 1..Len(seq) : reported[k].action = seq[k]

\* No address of the pool db is in the index.
NoneIndexed(db) == \A ip \in DOMAIN db.zset : db.zset[ip] = NoScore

\* C12: two Adds in a row over an interval none of whose addresses the pool
\* held report the number of addresses of the interval and then 0, and an
\* Add leaves the score of every address already in the index as it was.
C12_AddIdempotent ==
    /\ (Ran(<<"IPPOOL_TOOL_ADD", "IPPOOL_TOOL_ADD">>) /\ NoneIndexed(done[1].store0)) =>
          /\ reported[1].out = CountOf(ops[1])
          /\ reported[2].out = 0
    /\ (InOp /\ Op.action = "IPPOOL_TOOL_ADD") =>
          \A ip \in DOMAIN store0.zset :
              store0.zset[ip] # NoScore => store.zset[ip] = store0.zset[ip]

\* is_active = now.tv_sec <= leases[i]->next_event
is_active(now, lease) == now <= lease.next_event

\* The address is leased in db: an index entry with a non-zero score, and
\* metadata with a device and a gateway.
Leased(db, ip_buff) ==
    /\ db.zset[ip_buff] \notin {NoScore, 0}
    /\ db.hash[ip_buff].device # Nil
    /\ db.hash[ip_buff].gateway # Nil

\* C13: after a Release and then a Show over an interval, every address of
\* the interval that was leased before the Release has a record in the
\* list shown, with expiry 0 (so not active at any time after 0) and with
\* the device and gateway the pool held before the Release.
C13_ReleaseThenShow ==
    Ran(<<"IPPOOL_TOOL_RELEASE", "IPPOOL_TOOL_SHOW">>) =>
        \A k \in 1..CountOf(ops[1]) :
            LET a       == NthAddr(ops[1], k - 1)
                ip_buff == SprintIp(a, ops[1].prefix)
                before  == done[1].store0
            IN Leased(before, ip_buff) =>
                 \E i \in 1..Len(reported[2].out) :
                     LET lease == reported[2].out[i]
                     IN /\ lease.ipaddr = a
                        /\ lease.next_event = 0
                        /\ ~is_active(1, lease)
                        /\ lease.device = before.hash[ip_buff].device
                        /\ lease.gateway = before.hash[ip_buff].gateway

\* The addresses of the attempts, among the first n, that succeeded.
RECURSIVE SucceededAddrs(_, _)
SucceededAddrs(ps, n) ==
    IF n = 0 THEN <<>>
    ELSE SucceededAddrs(ps, n - 1)
         \o (IF ps[n].outcome = "REDIS_RCODE_SUCCESS" THEN ps[n].addrs ELSE <<>>)

\* C25: replies reach the process callback only in a step that follows an
\* attempt that ended in success, and they are the replies of that attempt
\* (one per command it enqueued, none of them the reply of a redirected
\* attempt); the addresses of the attempts that succeeded are strictly
\* increasing, so none is there twice, and none contributes twice to the
\* count or to the lease list.
C25_ProcessOnlySuccessReplies ==
    /\ [][processed' > processed =>
            /\ s_ret = "REDIS_RCODE_SUCCESS"
            /\ pipes[Len(pipes)].outcome = "REDIS_RCODE_SUCCESS"
            /\ reply_cnt = Len(pipes[Len(pipes)].addrs) * CmdsPerAddr(Op.action)
            /\ \A i \in 1..reply_cnt : replies[i].type # "REDIS_REPLY_ERROR"
            /\ processed' = processed + reply_cnt]_vars
    /\ [](InOp =>
            LET got == SucceededAddrs(pipes, Len(pipes))
            IN /\ \A i \in 1..(Len(got) - 1) :
                     WGt(HostInt(got[i + 1]), HostInt(got[i]))
               /\ IF Op.action = "IPPOOL_TOOL_SHOW" THEN Len(out) <= Len(got)
                  ELSE out <= Len(got))

\* C25 witness: the first batch of a long interval was redirected, replayed
\* and processed, and the operation returned success.
C25_Witness ==
    /\ InOp /\ pc = "ret" /\ ret = 0
    /\ Len(pipes) >= 3
    /\ pipes[1].outcome = "REDIS_RCODE_TRY_AGAIN"
    /\ pipes[2].outcome = "REDIS_RCODE_SUCCESS"
    /\ Len(pipes[2].addrs) = MAX_PIPELINED
    /\ processed > MAX_PIPELINED

\* C26: the checkpoint acked changes only where a batch starts, to the
\* cursor left by the batch before (which ended in success), never to an
\* earlier address than it held; a redirect leaves it as it is; it is
\* never beyond the cursor; and when a batch has just begun it is the cursor.
C26_CheckpointMonotone ==
    /\ [][acked' # acked =>
            /\ pc = "while" /\ pc' = "for"
            /\ acked' = ipaddr
            /\ pipes # <<>> =>
                  /\ pipes[Len(pipes)].outcome = "REDIS_RCODE_SUCCESS"
                  /\ ~WGt(HostInt(acked), HostInt(acked'))]_vars
    /\ []((pc = "for" \/ (pc \in {"while", "ret"} /\ pipes # <<>>)) =>
            ~WGt(HostInt(acked), HostInt(ipaddr)))
    /\ []((pc = "for" /\ tries = 0) => acked = ipaddr)

\* C26 witness: the second batch of a long interval was redirected: the
\* checkpoint is the address after the first batch and the cursor is ahead
\* of it.
C26_Witness ==
    /\ InOp /\ pc = "for"
    /\ Len(pipes) = 2
    /\ pipes[1].outcome = "REDIS_RCODE_SUCCESS"
    /\ pipes[2].outcome = "REDIS_RCODE_TRY_AGAIN"
    /\ acked = NthAddr(Op, MAX_PIPELINED)
    /\ WGt(HostInt(ipaddr), HostInt(acked))

(***************************************************************************)
(* Range parsing: main hands each operation's range text and -p value to   *)
(* parse_ip_range, exits through usage(64) when it fails, and defaults a   *)
(* zero p->prefix to the address width.                                    *)
(***************************************************************************)
V4(b1, b2, b3, b4) == [af |-> "AF_INET", addr |-> <<b1, b2, b3, b4>>]

\* An IPv6 address from its eight 16-bit groups.
V6(g) == [af |-> "AF_INET6",
          addr |-> AsSeq([k \in 1..16 |-> IF k % 2 = 1 THEN g[(k + 1) \div 2] \div 256
                                                       ELSE g[k \div 2] % 256])]

ParseAddrs4 ==
    { V4(10, 0, 0, 0), V4(10, 0, 0, 5), V4(10, 0, 0, 10), V4(10, 0, 0, 200),
      V4(10, 0, 0, 255), V4(0, 0, 0, 0), V4(255, 255, 255, 255), V4(127, 0, 0, 1) }

ParseAddrs6 ==
    { V6(<<0, 0, 0, 0, 0, 0, 0, 0>>),
      V6(<<8193, 3512, 0, 0, 0, 0, 0, 0>>),
      V6(<<8193, 3512, 0, 1, 0, 0, 0, 0>>),
      V6(<<8193, 3512, 0, 65280, 0, 0, 0, 0>>),
      V6(<<8193, 3512, 0, 0, 0, 0, 0, 255>>),
      V6(<<8193, 3512, 0, 1, 0, 0, 0, 1>>),
      V6(<<65535, 65535, 65535, 65535, 65535, 65535, 65535, 65535>>) }

ParseMasks6 == {0, 1, 32, 48, 56, 63, 64, 65, 72, 96, 120, 126, 127, 128}

\* -p values: (uint8_t)tmp & 0xff, so 0..255.
ParsePrefixes(af) ==
    IF af = "AF_INET6" THEN ParseMasks6 \cup {129, 200}
    ELSE (0..33) \cup {64, 200, 255}

ParseBuilds ==
    { [have128 |-> TRUE, shift |-> "zero", endian |-> e] : e \in {"little", "big"} }
    \cup { [have128 |-> FALSE, shift |-> u, endian |-> e]
             : u \in ShiftOutcomes, e \in {"little", "big"} }

ParseTexts ==
    { [form |-> "bad"] }
    \cup { [form |-> "host", a |-> x] : x \in ParseAddrs4 \cup ParseAddrs6 }
    \cup { [form |-> "cidr", a |-> x, n |-> m] : x \in ParseAddrs4, m \in 0..32 }
    \cup { [form |-> "cidr", a |-> x, n |-> m] : x \in ParseAddrs6, m \in ParseMasks6 }
    \cup { [form |-> "range", a |-> x, b |-> y]
             : x \in ParseAddrs4 \cup ParseAddrs6, y \in ParseAddrs4 \cup ParseAddrs6 }

\* The family the text starts with.
TextAf(t) == IF t.form = "bad" THEN "AF_UNSPEC" ELSE t.a.af

InitParse ==
    /\ paStr \in ParseTexts
    /\ paPrefix \in ParsePrefixes(TextAf(paStr))
    /\ build \in ParseBuilds
    /\ (TextAf(paStr) # "AF_INET6" => build = DefaultBuild)
    /\ paOut = [ret |-> 0]
    /\ paPc = "parse"
    /\ IterIdle
    /\ ArithIdle
    /\ store = EmptyStore
    /\ ScriptIdle
    /\ MainIdle

\* if (parse_ip_range(&p->start, &p->end, p->name, p->prefix) < 0) usage(64);
\* if (!p->prefix) p->prefix = IPADDR_LEN(p->start.af);
ParseRange ==
    /\ paPc = "parse"
    /\ \E r \in {parse_ip_range(paStr, paPrefix, build)} :
          paOut' = IF r.ret < 0
                   THEN [ret |-> r.ret, start |-> r.start, end |-> r.end,
                         prefix |-> paPrefix, exit |-> 64]
                   ELSE [ret |-> r.ret, start |-> r.start, end |-> r.end,
                         prefix |-> IF paPrefix = 0 THEN IPADDR_LEN(r.start.af)
                                    ELSE paPrefix,
                         exit |-> -1]
    /\ paPc' = "done"
    /\ UNCHANGED <<iterVars, store, scriptVars, paStr, paPrefix, arithVars>>
    /\ UNCHANGED <<mainVars, pc, driverVars, histVars>>

NextParse == ParseRange

SpecParse == InitParse /\ [][NextParse]_vars

\* A range was parsed successfully.
Parsed == paPc = "done" /\ paOut.ret = 0

\* The -p value in effect: 0 stands for the width of the family.
Requested == IF paPrefix = 0 THEN IPADDR_LEN(TextAf(paStr)) ELSE paPrefix

\* C14: every interval a successful parse returns has start <= end in the
\* unsigned order of its family, for the forms A-B, A/N and A and every
\* -p value, a CIDR with host bits set or all set included.
C14_StartNotAfterEnd ==
    Parsed => ~WGt(HostInt(paOut.start), HostInt(paOut.end))

\* x with its low k bits cleared, and 2^k, in the width of x (k up to the width).
ClearLow(x, k) == IF k >= Len(x) * LimbBits THEN WZero(Len(x))
                  ELSE WShl(WShr(x, k), k)

PowerOf2(k, n) == IF k >= n * LimbBits THEN WZero(n) ELSE WShl(WordOf(1, n), k)

\* The host-order value x of an address with every bit between the CIDR
\* mask m and the allocation prefix q set (bits are counted from the top of
\* the w-bit address); the other bits are those of x.
SetBetween(x, m, q, w) ==
    LET n == Len(x)
    IN WAdd(WAdd(ClearLow(x, w - m),
                 WSub(PowerOf2(w - m, n), PowerOf2(w - q, n))),
            WSub(x, ClearLow(x, w - q)))

\* C15: the prefix length of a successfully parsed operation is between 1
\* and the address width of its family, and a -p value above the width is
\* rejected in the forms A-B, A/N and A alike.
C15_PrefixWithinWidth ==
    /\ Parsed => (paOut.prefix >= 1 /\ paOut.prefix <= IPADDR_LEN(paOut.start.af))
    /\ (paPc = "done" /\ paStr.form # "bad" /\ paPrefix > IPADDR_LEN(TextAf(paStr)))
          => (paOut.ret < 0 /\ paOut.exit = 64)

\* C16: an IPv4 CIDR A/N with N <= 30 parsed for single addresses (-p 32 or
\* none) gives start = A, host bits kept, and end = A with its low 32-N
\* bits set, less one; 10.0.0.0/24 gives 10.0.0.0 to 10.0.0.254.
C16_Ipv4CidrExcludesBroadcast ==
    (paPc = "done" /\ paStr.form = "cidr" /\ TextAf(paStr) = "AF_INET"
       /\ paStr.n <= 30 /\ paPrefix \in {0, 32}) =>
        /\ paOut.ret = 0
        /\ paOut.start.addr = paStr.a.addr
        /\ HostInt(paOut.end) = WSub(SetBetween(HostInt(paStr.a), paStr.n, 32, 32),
                                      WordOf(1, 2))
        /\ (paStr.a = V4(10, 0, 0, 0) /\ paStr.n = 24)
              => paOut.end.addr = <<10, 0, 0, 254>>

\* C16 witness: 10.0.0.200/24 was parsed for single addresses.
C16_Witness ==
    /\ Parsed
    /\ paStr = [form |-> "cidr", a |-> V4(10, 0, 0, 200), n |-> 24]
    /\ paPrefix = 32
    /\ paOut.start.addr = <<10, 0, 0, 200>>
    /\ paOut.end.addr = <<10, 0, 0, 254>>

\* C17 as stated: 10.0.0.0/24 parsed with -p 24 gives start 10.0.0.0 and
\* end 10.0.0.255, the last address of the /24 block.
C17_DelegationEndIsLastAddress ==
    (paPc = "done" /\ paStr = [form |-> "cidr", a |-> V4(10, 0, 0, 0), n |-> 24]
       /\ paPrefix = 24) =>
        /\ paOut.ret = 0
        /\ paOut.start.addr = <<10, 0, 0, 0>>
        /\ paOut.end.addr = <<10, 0, 0, 255>>

\* C17 amended: an IPv4 CIDR A/N parsed with N <= -p < 32 gives start = A
\* and end = A with the bits between the mask and the prefix set and
\* nothing subtracted: end is the base address of the last prefix of the
\* block, so 10.0.0.0/24 with -p 24 gives start 10.0.0.0 and end 10.0.0.0.
C17_DelegationEndIsLastPrefix ==
    (paPc = "done" /\ paStr.form = "cidr" /\ TextAf(paStr) = "AF_INET"
       /\ paPrefix >= 1 /\ paStr.n <= paPrefix /\ paPrefix < 32) =>
        /\ paOut.ret = 0
        /\ paOut.start.addr = paStr.a.addr
        /\ HostInt(paOut.end) = SetBetween(HostInt(paStr.a), paStr.n, paPrefix, 32)
        /\ (paStr.a = V4(10, 0, 0, 0) /\ paStr.n = 24 /\ paPrefix = 24)
              => paOut.end.addr = <<10, 0, 0, 0>>

\* C17 witness: 10.0.0.0/24 was parsed with -p 24.
C17_Witness ==
    /\ Parsed
    /\ paStr = [form |-> "cidr", a |-> V4(10, 0, 0, 0), n |-> 24]
    /\ paPrefix = 24
    /\ paOut.end.addr = <<10, 0, 0, 0>>

\* The mask length of the text: that of the CIDR, the width for a host.
MaskLen(t) == IF t.form = "cidr" THEN t.n ELSE IPADDR_LEN(t.a.af)

\* C18: with -p equal to the address width (or none) and a CIDR mask of
\* width-1 or width, or a bare host, the parse succeeds with start = end =
\* the address given.
C18_PairOrHostIsItself ==
    (paPc = "done" /\ paStr.form \in {"cidr", "host"}
       /\ Requested = IPADDR_LEN(TextAf(paStr))
       /\ MaskLen(paStr) >= IPADDR_LEN(TextAf(paStr)) - 1) =>
        /\ paOut.ret = 0
        /\ paOut.start.addr = paStr.a.addr
        /\ paOut.end.addr = paStr.a.addr

\* C18 witness: 10.0.0.5/31 was parsed for single addresses.
C18_Witness ==
    /\ Parsed
    /\ paStr = [form |-> "cidr", a |-> V4(10, 0, 0, 5), n |-> 31]
    /\ paPrefix = 0
    /\ paOut.end.addr = <<10, 0, 0, 5>>

\* The address with only its first q bits kept (all of them for q >= width).
MaskedTo(a, q) ==
    (IF a.af = "AF_INET6" THEN htonlll_native(ClearLow(HostInt(a), 128 - q))
     ELSE htonl(ClearLow(HostInt(a), 32 - q)))

\* C19: A-B parses to start = A and end = B, each masked to the -p value,
\* whenever the two are of one family and A <= B (A = B included), and is
\* a parse error otherwise; 10.0.0.5-10.0.0.10 parses and
\* 10.0.0.10-10.0.0.5 does not.
C19_RangeForm ==
    (paPc = "done" /\ paStr.form = "range") =>
        IF paStr.a.af # paStr.b.af \/ WGt(HostInt(paStr.a), HostInt(paStr.b))
        THEN paOut.ret = -1 /\ paOut.exit = 64
        ELSE /\ paOut.ret = 0
             /\ paOut.start.addr = MaskedTo(paStr.a, IF Requested > IPADDR_LEN(paStr.a.af)
                                                     THEN IPADDR_LEN(paStr.a.af) ELSE Requested)
             /\ paOut.end.addr = MaskedTo(paStr.b, IF Requested > IPADDR_LEN(paStr.a.af)
                                                   THEN IPADDR_LEN(paStr.a.af) ELSE Requested)
             /\ paOut.start.af = paStr.a.af /\ paOut.end.af = paStr.a.af

\* C19 witness: 10.0.0.5-10.0.0.10 was parsed with -p 32.
C19_Witness ==
    /\ Parsed
    /\ paStr = [form |-> "range", a |-> V4(10, 0, 0, 5), b |-> V4(10, 0, 0, 10)]
    /\ paPrefix = 32
    /\ paOut.start.addr = <<10, 0, 0, 5>>
    /\ paOut.end.addr = <<10, 0, 0, 10>>

\* C20: an IPv6 CIDR A/N parsed with N <= -p <= 128 and -p minus N at most
\* 64 gives end = A with every bit between the mask and the prefix set,
\* less one when -p is 128, whatever bits A has set.
C20_Ipv6CidrEnd ==
    (paPc = "done" /\ paStr.form = "cidr" /\ TextAf(paStr) = "AF_INET6"
       /\ paStr.n <= Requested /\ Requested <= 128 /\ Requested - paStr.n <= 64
       /\ ~(Requested = 128 /\ paStr.n >= 127)) =>
        /\ paOut.ret = 0
        /\ HostInt(paOut.end) =
              (IF Requested = 128
               THEN WSub(SetBetween(HostInt(paStr.a), paStr.n, 128, 128), WordOf(1, 8))
               ELSE SetBetween(HostInt(paStr.a), paStr.n, Requested, 128))

(***************************************************************************)
(* The integer helpers on their own: one call of a mask generator or of    *)
(* the two-half addition or subtraction, on arguments at and around the    *)
(* boundaries of the halves.                                               *)
(***************************************************************************)
\* uint64_t values: small ones, and those next to 2^63 and 2^64.
ArithHalves ==
    { WordOf(0, 4), WordOf(1, 4), WordOf(5, 4),
      WShl(WordOf(1, 4), 63), WSub(WShl(WordOf(1, 4), 63), WordOf(1, 4)),
      WSub(WOnes(4), WordOf(1, 4)), WOnes(4) }

ArithHighs == { WordOf(0, 4), WordOf(7, 4), WOnes(4) }

ArithBuilds ==
    { DefaultBuild }
    \cup { [have128 |-> FALSE, shift |-> u, endian |-> "little"] : u \in ShiftOutcomes }

ArithCalls ==
    { [fn |-> "uint32_gen_mask", bits |-> n] : n \in 0..32 }
    \cup { [fn |-> "uint128_gen_mask", bits |-> n] : n \in 0..128 }
    \cup { [fn |-> f, a |-> uint128_new(ah, al), b |-> uint128_new(bh, bl)]
             : f \in {"uint128_add", "uint128_sub"},
               ah \in ArithHighs, al \in ArithHalves,
               bh \in ArithHighs, bl \in ArithHalves }

InitArith ==
    /\ arIn \in ArithCalls
    /\ build \in ArithBuilds
    /\ (arIn.fn = "uint32_gen_mask" => build = DefaultBuild)
    /\ (arIn.fn \in {"uint128_add", "uint128_sub"}
          => build = [have128 |-> FALSE, shift |-> "zero", endian |-> "little"])
    /\ arOut = NoResult
    /\ IterIdle
    /\ store = EmptyStore
    /\ ScriptIdle
    /\ ParseIdle
    /\ MainIdle

Returned(val) == [state |-> "ret", val |-> val]

\* rad_assert(bits < 128) stops a build that keeps its assertions.
AssertFailed == [state |-> "abort"]

CallMask32 ==
    /\ arOut = NoResult
    /\ arIn.fn = "uint32_gen_mask"
    /\ arOut' = Returned(uint32_gen_mask(arIn.bits))
    /\ UNCHANGED <<iterVars, store, scriptVars, parseVars, arIn>>
    /\ UNCHANGED <<mainVars, pc, driverVars, histVars>>

CallMask128 ==
    /\ arOut = NoResult
    /\ arIn.fn = "uint128_gen_mask"
    /\ IF build.have128
       THEN arOut' = Returned(uint128_gen_mask_native(arIn.bits))
       ELSE arOut' \in (IF arIn.bits < 128 THEN {} ELSE {AssertFailed})
                       \cup {Returned(uint128_gen_mask(arIn.bits, build.shift))}
    /\ UNCHANGED <<iterVars, store, scriptVars, parseVars, arIn>>
    /\ UNCHANGED <<mainVars, pc, driverVars, histVars>>

CallAdd ==
    /\ arOut = NoResult
    /\ arIn.fn = "uint128_add"
    /\ arOut' = Returned(uint128_add(arIn.a, arIn.b))
    /\ UNCHANGED <<iterVars, store, scriptVars, parseVars, arIn>>
    /\ UNCHANGED <<mainVars, pc, driverVars, histVars>>

CallSub ==
    /\ arOut = NoResult
    /\ arIn.fn = "uint128_sub"
    /\ arOut' = Returned(uint128_sub(arIn.a, arIn.b))
    /\ UNCHANGED <<iterVars, store, scriptVars, parseVars, arIn>>
    /\ UNCHANGED <<mainVars, pc, driverVars, histVars>>

NextArith == CallMask32 \/ CallMask128 \/ CallAdd \/ CallSub

SpecArith == InitArith /\ [][NextArith]_vars

\* The n-limb value whose low k bits are set and no others.
LowBits(k, n) ==
    AsSeq([i \in 1..n |-> IF k >= LimbBits * i THEN LimbBase - 1
                          ELSE IF k <= LimbBits * (i - 1) THEN 0
                          ELSE Pow2(k - LimbBits * (i - 1)) - 1])

\* The 128-bit value of a two-half integer.
Wide(x) == x.l \o x.h

\* C21: each mask generator returns the value whose low n bits are set and
\* no others, for every n from 0 to the width (32, 128), zero for n = 0 and
\* all ones for the full width, in the native and in the two-half build.
C21_MasksAreLowBits ==
    (arOut # NoResult /\ arIn.fn \in {"uint32_gen_mask", "uint128_gen_mask"}) =>
        /\ arOut.state = "ret"
        /\ IF arIn.fn = "uint32_gen_mask" THEN arOut.val = LowBits(arIn.bits, 2)
           ELSE IF build.have128 THEN arOut.val = LowBits(arIn.bits, 8)
           ELSE Wide(arOut.val) = LowBits(arIn.bits, 8)

\* C24: the two-half uint128_add and uint128_sub give (a + b) mod 2^128 and
\* (a - b) mod 2^128: the carry out of, and the borrow into, the low half
\* reaches the high half exactly when it occurs.
C24_AddSubModulo ==
    /\ (arOut # NoResult /\ arIn.fn = "uint128_add") =>
          Wide(arOut.val) = WAdd(Wide(arIn.a), Wide(arIn.b))
    /\ (arOut # NoResult /\ arIn.fn = "uint128_sub") =>
          Wide(arOut.val) = WSub(Wide(arIn.a), Wide(arIn.b))

\* C24 witness: adding 1 to a low half of 2^64 - 1 carried into the high half.
C24_Witness ==
    /\ arOut # NoResult
    /\ arIn.fn = "uint128_add"
    /\ arIn.a = uint128_new(WordOf(7, 4), WOnes(4))
    /\ arIn.b = uint128_new(WordOf(0, 4), WordOf(1, 4))
    /\ arOut.val = uint128_new(WordOf(8, 4), WordOf(0, 4))

(***************************************************************************)
(* Operations that meet a fault: a pool name too long for the metadata     *)
(* key, or a reply of a type the process callback does not expect.  One    *)
(* operation over one or two addresses.                                    *)
(***************************************************************************)
\* strlen(pool_arg): a short name, and one that leaves no room for "}:ip:".
PoolLens == {4, IPPOOL_MAX_IP_KEY_SIZE - 6}

FaultIntervals == { IntervalOf(<<10, 0, 0, 254>>, 32, n) : n \in 1..2 }

InitFault ==
    /\ build = DefaultBuild
    /\ IterIdle
    /\ ScriptIdle
    /\ ParseIdle
    /\ ArithIdle
    /\ \E iv \in FaultIntervals : \E a \in Actions :
          \E kindOf \in [0..(CountOf(iv) - 1) -> {Kinds[j] : j \in 1..4}] :
          \E len \in PoolLens :
            /\ ops = << [action |-> a, start |-> iv.start, end |-> iv.end,
                         prefix |-> iv.prefix, range |-> "newrg", pool_len |-> len] >>
            /\ store = MkStore(iv, kindOf)
            /\ pool_arg = len
    /\ range_arg = "newrg"
    /\ p_op = 1
    /\ pc = "main"
    /\ exitStatus = -1
    /\ reported = <<>>
    /\ done = <<>>
    /\ DriverIdle

NextFault == Next \/ AttemptUnexpected

SpecFault == InitFault /\ [][NextFault]_vars

\* The operation builds a metadata key and its pool name does not fit.
KeyOverflows(op) ==
    /\ op.action \in {"IPPOOL_TOOL_ADD", "IPPOOL_TOOL_SHOW"}
    /\ IPPOOL_BUILD_IP_KEY_FROM_STR(op.pool_len)

\* C22: when the key of an address does not fit the key buffer the operation
\* is aborted with failure: no further address is handed to the enqueue
\* callback after the one whose key overflowed, the driver does not return
\* success and nothing is reported for the operation.
C22_KeyOverflowAborts ==
    (p_op \in 1..Len(ops) /\ KeyOverflows(Op)) =>
        /\ \A k \in 1..Len(pipes) : Len(pipes[k].addrs) <= 1
        /\ pc = "ret" => ret < 0

\* C23: once a successfully collected batch held a reply of a type the
\* process callback does not expect, the operation is aborted: the driver
\* starts no further batch and returns failure, and no count or lease list
\* is reported.
C23_UnexpectedReplyAborts ==
    (\E k \in 1..Len(pipes) : pipes[k].bad # 0) =>
        /\ pc # "for" => (pc \in {"ret", "exit"} /\ ret < 0)
        /\ reported = <<>>

(***************************************************************************)
(* main from the end of option parsing: the loop that parses the range of  *)
(* every queued operation and fills in pool and range, then the operations *)
(* loop.  One or two operations over two addresses.                        *)
(***************************************************************************)
\* p->name of the queued operations: one address, both addresses, and a text
\* that is no address.
MainTexts ==
    { [form |-> "host", a |-> [af |-> "AF_INET", addr |-> <<10, 0, 0, 254>>]],
      [form |-> "range", a |-> [af |-> "AF_INET", addr |-> <<10, 0, 0, 254>>],
                         b |-> [af |-> "AF_INET", addr |-> <<10, 0, 0, 255>>]],
      [form |-> "bad"] }

MainInterval == IntervalOf(<<10, 0, 0, 254>>, 32, 2)

\* The pool before the run: the first address of any kind, the second absent
\* or leased.
MainKinds == { f \in [0..1 -> {Kinds[j] : j \in 1..4}] : f[1] \in {"absent", "leased"} }

\* ADD_ACTION: the operation as queued, its addresses still AF_UNSPEC.
ADD_ACTION(action, name) ==
    [action |-> action, name |-> name, prefix |-> 0,
     start |-> NoRange, end |-> NoRange, range |-> "", pool_len |-> 0]

MainQueues ==
    { << ADD_ACTION(a, t) >> : a \in Actions, t \in MainTexts }
    \cup { << ADD_ACTION(a, t), ADD_ACTION(b, u) >>
             : a \in Actions, t \in MainTexts,
               b \in {"IPPOOL_TOOL_ADD", "IPPOOL_TOOL_SHOW"}, u \in MainTexts }

InitMain ==
    /\ build = DefaultBuild
    /\ IterIdle
    /\ ScriptIdle
    /\ ParseIdle
    /\ ArithIdle
    /\ ops \in MainQueues
    /\ \E kindOf \in MainKinds : store = MkStore(MainInterval, kindOf)
    /\ pool_arg = 4
    /\ range_arg \in {Nil, "newrg"}
    /\ p_op = 1
    /\ pc = "parse"
    /\ exitStatus = -1
    /\ reported = <<>>
    /\ done = <<>>
    /\ ipaddr = NoAddr
    /\ acked = NoAddr
    /\ more = FALSE
    /\ s_ret = "REDIS_RCODE_SUCCESS"
    /\ replies = <<>>
    /\ reply_cnt = 0
    /\ out = 0
    /\ ret = 0
    /\ pipes = <<>>
    /\ tries = 0
    /\ redirects = 0
    /\ processed = 0
    /\ store0 = store

\* No range text is ever refused.
ParseFailed_never(r) == FALSE

\* if (parse_ip_range(...) < 0) usage(64);
ParseFailed(r) == r.ret < 0

\* One turn of the loop that parses the ranges and fills in pool and range.
MainParse ==
    /\ pc = "parse"
    /\ p_op <= Len(ops)
    /\ LET r == parse_ip_range(Op.name, Op.prefix, build)
       IN IF ParseFailed(r)
          THEN /\ exitStatus' = 64
               /\ pc' = "exit"
               /\ UNCHANGED <<ops, p_op>>
          ELSE /\ ops' = [ops EXCEPT ![p_op] =
                            [@ EXCEPT !.start = r.start,
                                      !.end = r.end,
                                      !.prefix = IF @ = 0 THEN IPADDR_LEN(r.start.af) ELSE @,
                                      !.pool_len = pool_arg,
                                      !.range = IF range_arg # Nil THEN range_arg ELSE @]]
               /\ p_op' = p_op + 1
               /\ UNCHANGED <<exitStatus, pc>>
    /\ UNCHANGED <<iterVars, store, scriptVars, parseVars, arithVars, pool_arg, range_arg,
                   reported, done, driverVars, histVars>>

\* Every range is parsed: on to the operations loop, from the first operation.
MainParsed ==
    /\ pc = "parse"
    /\ p_op > Len(ops)
    /\ p_op' = 1
    /\ pc' = "main"
    /\ UNCHANGED <<iterVars, store, scriptVars, parseVars, arithVars, pool_arg, range_arg,
                   ops, exitStatus, reported, done, driverVars, histVars>>

NextMain == MainParse \/ MainParsed \/ Next

SpecMain == InitMain /\ [][NextMain]_vars

\* Some queued operation has a range text that does not parse.
SomeRangeBad == \E k \in 1..Len(ops) : parse_ip_range(ops[k].name, ops[k].prefix, build).ret < 0

\* The operations loop has been entered.
OpsLoopEntered == pc \in {"main", "while", "for", "ret"} \/ (pc = "exit" /\ exitStatus \in {0, 1})

\* C27: every range is parsed before any command goes to the store.  With a
\* range that does not parse the tool exits with status 64 and no operation
\* has read or modified the store; otherwise the operations run in queue
\* order, each reported before the next starts, and one that fails (exit
\* status 1) leaves itself and every later operation unreported.
C27_ParseThenRunInOrder ==
    /\ SomeRangeBad =>
          /\ pc \in {"parse", "exit"}
          /\ pc = "exit" => exitStatus = 64
          /\ store = store0
          /\ pipes = <<>>
          /\ reported = <<>>
    /\ exitStatus = 64 => SomeRangeBad
    /\ OpsLoopEntered =>
          /\ \A k \in 1..Len(ops) : ops[k].start.af # "AF_UNSPEC"
          /\ Len(reported) = p_op - 1
          /\ \A k \in 1..Len(reported) : reported[k].action = ops[k].action
    /\ exitStatus = 1 => (p_op <= Len(ops) /\ ret < 0)
    /\ exitStatus = 0 => Len(reported) = Len(ops)

\* C27 witness: the first range parses, the second does not; the tool has
\* exited with status 64 and the store is as it was.
C27_Witness ==
    /\ Len(ops) = 2
    /\ ops[1].start.af = "AF_INET"
    /\ ops[1].action = "IPPOOL_TOOL_ADD"
    /\ ops[2].name.form = "bad"
    /\ pc = "exit"
    /\ exitStatus = 64
    /\ store = store0
    /\ pipes = <<>>

\* The value HSET writes as the range: the run's range, empty when none.
RunRange == IF range_arg = Nil THEN "" ELSE range_arg

\* C28: when an Add pipeline succeeds, every address in it that was in the
\* index before keeps its score, its device and its gateway, has its range
\* set to the run's range (the empty string when none was given), and the
\* reply to its transaction counts 0 additions.
C28_AddOverExisting ==
    [][(/\ pc = "for"
        /\ Op.action = "IPPOOL_TOOL_ADD"
        /\ Len(pipes') = Len(pipes) + 1
        /\ pipes'[Len(pipes')].outcome = "REDIS_RCODE_SUCCESS")
       => \A i \in 1..Len(pipes'[Len(pipes')].addrs) :
            LET ip == SprintIp(pipes'[Len(pipes')].addrs[i], Op.prefix)
                exec == replies'[i * CmdsPerAddr(Op.action)]
            IN ZSCORE(store, ip) # NoScore =>
                 /\ ZSCORE(store', ip) = ZSCORE(store, ip)
                 /\ HGET(store', ip, "range") = RunRange
                 /\ HGET(store', ip, "device") = HGET(store, ip, "device")
                 /\ HGET(store', ip, "gateway") = HGET(store, ip, "gateway")
                 /\ exec.type = "REDIS_REPLY_ARRAY"
                 /\ exec.element[1].type = "REDIS_REPLY_INTEGER"
                 /\ exec.element[1].integer = 0
                 /\ _driver_add_lease_process(0, pipes'[Len(pipes')].addrs[i], exec).out = 0]_vars

\* C28 witness: an Add without -R over a leased address has returned: the
\* lease is as before, the range is now empty and nothing was counted.
C28_Witness ==
    /\ pc = "ret"
    /\ p_op = 1
    /\ Op.action = "IPPOOL_TOOL_ADD"
    /\ Op.name.form = "host"
    /\ range_arg = Nil
    /\ ret = 0
    /\ out = 0
    /\ LET ip == SprintIp(Op.start, Op.prefix)
       IN /\ ZSCORE(store0, ip) > 0
          /\ HGET(store0, ip, "range") = "rg"
          /\ ZSCORE(store, ip) = ZSCORE(store0, ip)
          /\ HGET(store, ip, "range") = ""
          /\ HGET(store, ip, "device") = HGET(store0, ip, "device")
          /\ HGET(store, ip, "device") # Nil

====
